---- MODULE Spec2Model ----
(***************************************************************************)
(* Offload monitor (src/offload_monitor.py): layout parsers, the table     *)
(* selector, shift resolution, and the per-shift flight store with its     *)
(* meta.json update counters and the document-hash state file.             *)
(*                                                                         *)
(* Text is modelled as a sequence of one-character strings, so that        *)
(* upper(), strip(), substring tests, regular-expression matches and       *)
(* slugify() are computed character by character as the code does.         *)
(***************************************************************************)
EXTENDS Integers, Sequences, FiniteSets, TLC

VARIABLES
    mins,        \* get_shift: minute of the day of `now`
    shift_out,   \* get_shift: the returned shift ("" before the call)
    html,        \* the document downloaded by the latest run of main()
    flights_out, \* extract_flights: the returned list (selector specification)
    phase,       \* selector specification: "input" before, "done" after the call
    now,         \* local time of the latest run: [day, mins]
    state_file,  \* content of state.txt (the document hash), or NoState
    files,       \* data/<date>/<shift>/<name>.json : <<date, shift, name>> -> payload
    meta,        \* data/<date>/<shift>/meta.json  : <<date, shift, name>> -> entry
    last,        \* what the latest run of main() did (its locals and exit)
    life,        \* per stored key: the classifications of its first runs
    reports      \* docs/: the report pages, each with the time it was written

vars ==
    <<mins, shift_out, html, flights_out, phase, now, state_file, files, meta, last, life,
      reports>>

(***************************************************************************)
(* Characters and text                                                     *)
(***************************************************************************)
Digits == {"0", "1", "2", "3", "4", "5", "6", "7", "8", "9"}

UpperSeq == <<"A", "B", "C", "D", "E", "F", "G", "H", "I", "J", "K", "L", "M",
              "N", "O", "P", "Q", "R", "S", "T", "U", "V", "W", "X", "Y", "Z">>

LowerSeq == <<"a", "b", "c", "d", "e", "f", "g", "h", "i", "j", "k", "l", "m",
              "n", "o", "p", "q", "r", "s", "t", "u", "v", "w", "x", "y", "z">>

UpperLetters == {UpperSeq[i] : i \in DOMAIN UpperSeq}

LowerLetters == {LowerSeq[i] : i \in DOMAIN LowerSeq}

\* \s of the regular expressions, and what str.strip() removes
IsSpace(c) == c = " "

\* [A-Za-z0-9]
IsAlnum(c) == c \in Digits \cup UpperLetters \cup LowerLetters

\* \w
IsWord(c) == IsAlnum(c) \/ c = "_"

UpperChar(c) ==
    IF c \in LowerLetters
    THEN UpperSeq[CHOOSE i \in DOMAIN LowerSeq : LowerSeq[i] = c]
    ELSE c

\* str.upper()
Upper(s) == [i \in 1..Len(s) |-> UpperChar(s[i])]

\* str.strip()
Strip(s) ==
    LET keep == {i \in 1..Len(s) : ~IsSpace(s[i])}
    IN  IF keep = {} THEN <<>>
        ELSE LET lo == CHOOSE i \in keep : \A k \in keep : i <= k
                 hi == CHOOSE i \in keep : \A k \in keep : i >= k
             IN  SubSeq(s, lo, hi)

\* sub in s
Contains(sub, s) ==
    \E i \in 0..(Len(s) - Len(sub)) : SubSeq(s, i + 1, i + Len(sub)) = sub

\* s.startswith(pre)
StartsWith(s, pre) == Len(s) >= Len(pre) /\ SubSeq(s, 1, Len(pre)) = pre

\* s[p:].startswith(pre), p a one-based position
StartsAt(s, p, pre) ==
    p + Len(pre) - 1 <= Len(s) /\ SubSeq(s, p, p + Len(pre) - 1) = pre

RECURSIVE Join(_)
\* " ".join(row)
Join(row) ==
    IF Len(row) = 0 THEN <<>>
    ELSE IF Len(row) = 1 THEN row[1]
    ELSE row[1] \o <<" ">> \o Join(Tail(row))

\* bool(s) of a string
Truthy(s) == Len(s) > 0

SetMin(S) == CHOOSE x \in S : \A y \in S : x <= y

SetMax(S) == CHOOSE x \in S : \A y \in S : x >= y

\* F applied to the value v: a value that is computed once and used under a name
With(v, F(_)) == F(v)

\* the end of the maximal run of characters satisfying Cls that starts at p
\* (p - 1 when s[p] is not in the class or p is past the end)
RunEnd(s, p, Cls(_)) ==
    LET stops == {k \in p..Len(s) : ~Cls(s[k])}
    IN  IF p > Len(s) THEN p - 1
        ELSE IF stops = {} THEN Len(s) ELSE SetMin(stops) - 1

(***************************************************************************)
(* get_shift and the shift windows shown in the reports                    *)
(***************************************************************************)
get_shift_late_boundary(m) ==
    IF 6 * 60 <= m /\ m < 14 * 60 + 30 THEN "shift1"
    ELSE IF 14 * 60 + 30 <= m /\ m < 21 * 60 THEN "shift2"
    ELSE "shift3"

get_shift_inclusive_end(m) ==
    IF 6 * 60 <= m /\ m <= 14 * 60 + 30 THEN "shift1"
    ELSE IF 14 * 60 + 30 <= m /\ m < 21 * 60 + 30 THEN "shift2"
    ELSE "shift3"

\* get_shift(now), with m = now.hour * 60 + now.minute
get_shift(m) ==
    IF 6 * 60 <= m /\ m < 14 * 60 + 30 THEN "shift1"
    ELSE IF 14 * 60 + 30 <= m /\ m < 21 * 60 + 30 THEN "shift2"
    ELSE "shift3"

\* _shift_window: (start_hm, end_hm, add_day) as <<hour, minute>> pairs
shift_window(shift) ==
    IF shift = "shift1" THEN [start_hm |-> <<6, 0>>, end_hm |-> <<14, 30>>, add_day |-> 0]
    ELSE IF shift = "shift2" THEN [start_hm |-> <<14, 30>>, end_hm |-> <<21, 30>>, add_day |-> 0]
    ELSE [start_hm |-> <<21, 30>>, end_hm |-> <<6, 0>>, add_day |-> 1]

\* shift_labels of build_shift_report: the window printed for each shift
shift_labels(shift) ==
    IF shift = "shift1" THEN [from |-> <<6, 0>>, to |-> <<14, 30>>]
    ELSE IF shift = "shift2" THEN [from |-> <<14, 30>>, to |-> <<21, 30>>]
    ELSE [from |-> <<21, 30>>, to |-> <<6, 0>>]

\* minute of the day of an "HH:MM" label
HmToMins(hm) == hm[1] * 60 + hm[2]

\* whether minute m lies in the window a shift is labelled with
InLabelWindow(m, shift) ==
    LET a == HmToMins(shift_labels(shift).from)
        b == HmToMins(shift_labels(shift).to)
    IN  IF a < b THEN a <= m /\ m < b ELSE m >= a \/ m < b

(***************************************************************************)
(* Keywords of the parsers                                                 *)
(***************************************************************************)
W_FLIGHT == <<"F", "L", "I", "G", "H", "T">>

W_FLIGHT_NO == <<"F", "L", "I", "G", "H", "T", " ", "#">>

W_FLIGHTNO == <<"F", "L", "I", "G", "H", "T", "#">>

W_DATE == <<"D", "A", "T", "E">>

W_DESTINATION == <<"D", "E", "S", "T", "I", "N", "A", "T", "I", "O", "N">>

W_DEST == <<"D", "E", "S", "T">>

W_ITEM == <<"I", "T", "E", "M">>

W_AWB == <<"A", "W", "B">>

W_PCS == <<"P", "C", "S">>

W_PIECES == <<"P", "I", "E", "C", "E", "S">>

W_KGS == <<"K", "G", "S">>

W_KG == <<"K", "G">>

W_DESCRIPTION == <<"D", "E", "S", "C", "R", "I", "P", "T", "I", "O", "N">>

W_DESC == <<"D", "E", "S", "C">>

W_REASON == <<"R", "E", "A", "S", "O", "N">>

W_TOTAL == <<"T", "O", "T", "A", "L">>

W_CBT == <<"C", "B", "T">>

W_BT == <<"B", "T">>

W_AKE == <<"A", "K", "E">>

W_PMC == <<"P", "M", "C">>

W_PAG == <<"P", "A", "G">>

W_ULD == <<"U", "L", "D">>

W_AKH == <<"A", "K", "H">>

W_RKN == <<"R", "K", "N">>

W_STD == <<"S", "T", "D">>

W_ETD == <<"E", "T", "D">>

W_EMAIL == <<"E", "M", "A", "I", "L">>

W_PHYSICAL == <<"P", "H", "Y", "S", "I", "C", "A", "L">>

W_TROLLEY == <<"T", "R", "O", "L", "L", "E", "Y">>

W_CMS == <<"C", "M", "S">>

W_OFFLOADING_PROCESS == <<"O", "F", "F", "L", "O", "A", "D", "I", "N", "G", " ", "P", "R", "O", "C", "E", "S", "S">>

W_VERIFICATION == <<"V", "E", "R", "I", "F", "I", "C", "A", "T", "I", "O", "N">>

W_REMARKS == <<"R", "E", "M", "A", "R", "K", "S">>

W_OFFLOAD == <<"O", "F", "F", "L", "O", "A", "D">>

W_ED == <<"E", "D">>

W_CARGO == <<"C", "A", "R", "G", "O">>

W_ON == <<"O", "N">>

W_CGO == <<"C", "G", "O">>

W_DUE == <<"D", "U", "E">>

W_UNKNOWN == <<"U", "N", "K", "N", "O", "W", "N">>

(***************************************************************************)
(* Row helpers                                                             *)
(***************************************************************************)
\* Python's None for a column index; list positions are one-based here
NoIndex == 0

\* _get with the column position taken one cell too far to the right
Get_shifted(row, idx) == IF idx = NoIndex \/ idx >= Len(row) THEN <<>> ELSE row[idx + 1]

\* _get(row, idx)
Get(row, idx) == IF idx = NoIndex \/ idx > Len(row) THEN <<>> ELSE row[idx]

\* _find_value_after(row, keys): the cell after the first cell that equals a key
\* (upper-cased and stripped) and has a cell after it
find_value_after(row, keys) ==
    LET hit == {i \in 1..Len(row) :
                    /\ Strip(Upper(row[i])) \in {Upper(k) : k \in keys}
                    /\ i + 1 <= Len(row)}
    IN  IF hit = {} THEN <<>> ELSE row[SetMin(hit) + 1]

\* _find_index(row, keys): the first cell that contains a key
find_index(row, keys) ==
    LET hit == {i \in 1..Len(row) : \E k \in keys : Contains(Upper(k), Upper(row[i]))}
    IN  IF hit = {} THEN NoIndex ELSE SetMin(hit)

(***************************************************************************)
(* Type A: horizontal table                                                *)
(***************************************************************************)
\* line 402-403: the row is a candidate flight header
a_header_candidate(row) ==
    LET joined == Upper(Join(row))
    IN  /\ Contains(W_FLIGHT, joined)
        /\ Contains(W_DATE, joined)
        /\ (Contains(W_DESTINATION, joined) \/ Contains(W_DEST, joined))

a_flight_num(row) == find_value_after(row, {W_FLIGHT_NO, W_FLIGHTNO, W_FLIGHT})

a_date(row) == find_value_after(row, {W_DATE})

a_destination(row) == find_value_after(row, {W_DESTINATION, W_DEST})

\* lines 409-414: the candidate is skipped
a_header_rejected(row) ==
    \/ (~Truthy(a_flight_num(row)) /\ ~Truthy(a_destination(row)))
    \/ Upper(a_flight_num(row)) \in {W_ITEM, W_AWB, W_PCS, <<>>}

\* line 445: re.match(r"^(CBT|BT|AKE|PMC|PAG|ULD|AKH|RKN)\w*", awb_clean)
a_trolley_token(awb_clean) ==
    \E pre \in {W_CBT, W_BT, W_AKE, W_PMC, W_PAG, W_ULD, W_AKH, W_RKN} :
        StartsWith(awb_clean, pre)

\* lines 417-421: column positions found in the sub-header row
a_columns(cargo_header) ==
    [awb  |-> find_index(cargo_header, {W_AWB}),
     pcs  |-> find_index(cargo_header, {W_PCS, W_PIECES}),
     kgs  |-> find_index(cargo_header, {W_KGS, W_KG}),
     desc |-> find_index(cargo_header, {W_DESCRIPTION, W_DESC}),
     rsn  |-> find_index(cargo_header, {W_REASON})]

\* lines 460-469
a_item(awb, pcs, kgs, desc, rsn, trolley) ==
    [awb |-> awb, pcs |-> pcs, kgs |-> kgs, description |-> desc, reason |-> rsn,
     class_ |-> <<>>, item |-> <<>>, trolley |-> trolley]

RECURSIVE parse_a_body_first_trolley(_, _, _, _, _)
\* the body loop that keeps the first trolley of a shipment: a trolley row
\* after a shipment that has a trolley already changes nothing
parse_a_body_first_trolley(all_rows, j, c, items, pending_trolley) ==
    IF j > Len(all_rows) THEN [j |-> j, items |-> items]
    ELSE
    LET dr     == all_rows[j]
        dr_str == Upper(Join(dr))
        awb    == Get(dr, c.awb)
        pcs    == Get(dr, c.pcs)
        kgs    == Get(dr, c.kgs)
        desc   == Get(dr, c.desc)
        rsn    == Get(dr, c.rsn)
        awb_clean == Upper(Strip(awb))
        others == Truthy(pcs) \/ Truthy(kgs) \/ Truthy(desc) \/ Truthy(rsn)
    IN  IF Contains(W_TOTAL, dr_str) THEN [j |-> j + 1, items |-> items]
        ELSE IF Contains(W_FLIGHT, dr_str) /\ Contains(W_DATE, dr_str)
        THEN [j |-> j, items |-> items]
        ELSE IF a_trolley_token(awb_clean) /\ ~others
        THEN IF Len(items) > 0
             THEN parse_a_body_first_trolley(all_rows, j + 1, c,
                      [items EXCEPT ![Len(items)].trolley = IF Truthy(@) THEN @ ELSE awb],
                      pending_trolley)
             ELSE parse_a_body_first_trolley(all_rows, j + 1, c, items, awb)
        ELSE IF ~(Truthy(awb) \/ others)
        THEN parse_a_body_first_trolley(all_rows, j + 1, c, items, pending_trolley)
        ELSE parse_a_body_first_trolley(all_rows, j + 1, c,
                 Append(items, a_item(awb, pcs, kgs, desc, rsn, pending_trolley)), <<>>)

RECURSIVE parse_a_body(_, _, _, _, _)
\* the inner while loop, lines 426-470: returns the final j and the items
parse_a_body(all_rows, j, c, items, pending_trolley) ==
    IF j > Len(all_rows) THEN [j |-> j, items |-> items]
    ELSE
    LET dr     == all_rows[j]
        dr_str == Upper(Join(dr))
        awb    == Get(dr, c.awb)
        pcs    == Get(dr, c.pcs)
        kgs    == Get(dr, c.kgs)
        desc   == Get(dr, c.desc)
        rsn    == Get(dr, c.rsn)
        awb_clean == Upper(Strip(awb))
        others == Truthy(pcs) \/ Truthy(kgs) \/ Truthy(desc) \/ Truthy(rsn)
    IN  IF Contains(W_TOTAL, dr_str) THEN [j |-> j + 1, items |-> items]
        ELSE IF Contains(W_FLIGHT, dr_str) /\ Contains(W_DATE, dr_str)
        THEN [j |-> j, items |-> items]
        ELSE IF a_trolley_token(awb_clean) /\ ~others
        THEN IF Len(items) > 0
             THEN parse_a_body(all_rows, j + 1, c,
                      [items EXCEPT ![Len(items)].trolley = awb], pending_trolley)
             ELSE parse_a_body(all_rows, j + 1, c, items, awb)
        ELSE IF ~(Truthy(awb) \/ others)
        THEN parse_a_body(all_rows, j + 1, c, items, pending_trolley)
        ELSE parse_a_body(all_rows, j + 1, c,
                 Append(items, a_item(awb, pcs, kgs, desc, rsn, pending_trolley)), <<>>)

RECURSIVE parse_a_from(_, _, _)
\* the outer while loop, lines 398-482, from row i with the flights found so far
parse_a_from(all_rows, i, flights) ==
    IF i > Len(all_rows) THEN flights
    ELSE
    LET row == all_rows[i]
    IN  IF a_header_candidate(row)
        THEN IF a_header_rejected(row)
             THEN parse_a_from(all_rows, i + 1, flights)
             ELSE LET cargo_header == IF i + 1 <= Len(all_rows) THEN all_rows[i + 1] ELSE <<>>
                      body == parse_a_body(all_rows, i + 2, a_columns(cargo_header), <<>>, <<>>)
                  IN  parse_a_from(all_rows, body.j,
                          Append(flights,
                              [flight      |-> a_flight_num(row),
                               date        |-> a_date(row),
                               std_etd     |-> <<>>,
                               destination |-> a_destination(row),
                               format      |-> "A",
                               items       |-> body.items]))
        ELSE parse_a_from(all_rows, i + 1, flights)

\* _parse_type_a(all_rows)
parse_type_a(all_rows) == parse_a_from(all_rows, 1, <<>>)

(***************************************************************************)
(* Type B: columnar table                                                  *)
(***************************************************************************)
\* lines 495-497: the row is the column-title row
b_is_header(row) ==
    LET joined == Upper(Join(row))
    IN  Cardinality({kw \in {W_ITEM, W_DATE, W_FLIGHT, W_DEST} : Contains(kw, joined)}) >= 3

\* lines 494-500: position of the first title row, NoIndex when there is none
b_header_idx(all_rows) ==
    LET hit == {i \in 1..Len(all_rows) : b_is_header(all_rows[i])}
    IN  IF hit = {} THEN NoIndex ELSE SetMin(hit)

RECURSIVE b_col(_, _)
\* col(names), lines 505-510: names is tried in order, headers left to right
b_col(headers, names) ==
    IF Len(names) = 0 THEN NoIndex
    ELSE LET hit == {j \in 1..Len(headers) : Contains(names[1], headers[j])}
         IN  IF hit # {} THEN SetMin(hit) ELSE b_col(headers, Tail(names))

\* lines 512-523
b_columns(headers) ==
    [item  |-> b_col(headers, <<W_ITEM>>),
     date  |-> b_col(headers, <<W_DATE>>),
     flt   |-> b_col(headers, <<W_FLIGHT>>),
     std   |-> b_col(headers, <<W_STD, W_ETD>>),
     dest  |-> b_col(headers, <<W_DEST>>),
     email |-> b_col(headers, <<W_EMAIL>>),
     phys  |-> b_col(headers, <<W_PHYSICAL>>),
     trol  |-> b_col(headers, <<W_TROLLEY, W_ULD>>),
     cms   |-> b_col(headers, <<W_CMS, W_OFFLOADING_PROCESS>>),
     pcs   |-> b_col(headers, <<W_PIECES, W_VERIFICATION>>),
     rsn   |-> b_col(headers, <<W_REASON>>),
     rmk   |-> b_col(headers, <<W_REMARKS>>)]

\* lines 554-567
b_item(row, c) ==
    [item |-> Get(row, c.item), awb |-> <<>>, pcs |-> Get(row, c.pcs), kgs |-> <<>>,
     description |-> <<>>, class_ |-> <<>>, reason |-> Get(row, c.rsn),
     email |-> Get(row, c.email), physical |-> Get(row, c.phys),
     trolley |-> Get(row, c.trol), cms |-> Get(row, c.cms), remarks |-> Get(row, c.rmk)]

\* any(item.values())
b_item_any(it) ==
    \/ Truthy(it.item) \/ Truthy(it.pcs) \/ Truthy(it.reason) \/ Truthy(it.email)
    \/ Truthy(it.physical) \/ Truthy(it.trolley) \/ Truthy(it.cms) \/ Truthy(it.remarks)

\* lines 536-540; `current` is the last flight appended, None while there is none
b_is_new(flights, flt, date, dest) ==
    /\ (Truthy(flt) \/ Truthy(date))
    /\ \/ Len(flights) = 0
       \/ flt # flights[Len(flights)].flight
       \/ dest # flights[Len(flights)].destination

\* one iteration of the row loop, lines 528-569
b_row_step(flights, row, c) ==
    IF \A k \in 1..Len(row) : ~Truthy(row[k]) THEN flights
    ELSE
    LET flt  == Get(row, c.flt)
        date == Get(row, c.date)
        dest == Get(row, c.dest)
        started ==
            IF b_is_new(flights, flt, date, dest)
            THEN Append(flights,
                     [flight |-> flt, date |-> date, std_etd |-> Get(row, c.std),
                      destination |-> dest, format |-> "B", items |-> <<>>])
            ELSE flights
        n == Len(started)
    IN  IF n > 0 /\ b_item_any(b_item(row, c))
        THEN [started EXCEPT ![n].items = Append(@, b_item(row, c))]
        ELSE started

RECURSIVE parse_b_from(_, _, _, _)
\* the row loop from row i on
parse_b_from(all_rows, i, c, flights) ==
    IF i > Len(all_rows) THEN flights
    ELSE parse_b_from(all_rows, i + 1, c, b_row_step(flights, all_rows[i], c))

\* _parse_type_b(all_rows)
parse_type_b(all_rows) ==
    LET header_idx == b_header_idx(all_rows)
    IN  IF header_idx = NoIndex THEN <<>>
        ELSE LET headers == [j \in 1..Len(all_rows[header_idx]) |->
                                 Strip(Upper(all_rows[header_idx][j]))]
             IN  parse_b_from(all_rows, header_idx + 1, b_columns(headers), <<>>)

(***************************************************************************)
(* Type C: free text.  The three regular expressions are matched as        *)
(* Python's re matches them (leftmost match, greedy and lazy quantifiers). *)
(***************************************************************************)
IsDigit(c) == c \in Digits

IsUpperLetter(c) == c \in UpperLetters

\* [\d.]
IsDigitDot(c) == c \in Digits \/ c = "."

\* [\d\s]
IsDigitSpace(c) == c \in Digits \/ IsSpace(c)

\* the start of the maximal run of characters satisfying Cls that ends at e
\* (e + 1 when s[e] is not in the class or e is before the start)
RunStart(s, e, Cls(_)) ==
    LET stops == {k \in 1..e : ~Cls(s[k])}
    IN  IF stops = {} THEN 1 ELSE SetMax(stops) + 1

NoMatch == [ok |-> FALSE]

\* title_pat matched with its first character at position p:
\* OFFLOAD(?:ED)?\s+CARGO\s+ON\s+([A-Z0-9]{2,6})\s*/\s*(\w+), IGNORECASE
title_at(s, p) ==
    With(Upper(s), LAMBDA u :
    With(p + Len(W_OFFLOAD), LAMBDA q1 :
    With(IF StartsAt(u, q1, W_ED) THEN q1 + Len(W_ED) ELSE q1, LAMBDA q2 :
    With(RunEnd(u, q2, IsSpace) + 1, LAMBDA q3 :
    With(q3 + Len(W_CARGO), LAMBDA q4 :
    With(RunEnd(u, q4, IsSpace) + 1, LAMBDA q5 :
    With(q5 + Len(W_ON), LAMBDA q6 :
    With(RunEnd(u, q6, IsSpace) + 1, LAMBDA q7 :
    With(RunEnd(u, q7, IsAlnum), LAMBDA r :
    With(RunEnd(u, r + 1, IsSpace) + 1, LAMBDA q8 :
    With(RunEnd(u, q8 + 1, IsSpace) + 1, LAMBDA q9 :
    With(RunEnd(u, q9, IsWord), LAMBDA w :
        IF /\ StartsAt(u, p, W_OFFLOAD)
           /\ q3 - q2 >= 1 /\ StartsAt(u, q3, W_CARGO)
           /\ q5 - q4 >= 1 /\ StartsAt(u, q5, W_ON)
           /\ q7 - q6 >= 1
           /\ r - q7 + 1 >= 2 /\ r - q7 + 1 <= 6
           /\ StartsAt(u, q8, <<"/">>)
           /\ w - q9 + 1 >= 1
        THEN [ok |-> TRUE, flight |-> SubSeq(u, q7, r), date |-> SubSeq(u, q9, w)]
        ELSE NoMatch))))))))))))

\* title_pat.search(line), with group(1).upper() and group(2).upper()
title_match(s) ==
    With({p \in 1..Len(s) : title_at(s, p).ok}, LAMBDA hit :
        IF hit = {} THEN NoMatch ELSE title_at(s, SetMin(hit)))

\* reason_pat matched with its first character at position p:
\* CGO\s+OFFLOAD(?:ED)?\s+DUE\s+(.+), IGNORECASE
reason_at(s, p) ==
    With(Upper(s), LAMBDA u :
    With(p + Len(W_CGO), LAMBDA q1 :
    With(RunEnd(u, q1, IsSpace) + 1, LAMBDA q2 :
    With(q2 + Len(W_OFFLOAD), LAMBDA q3 :
    With(IF StartsAt(u, q3, W_ED) THEN q3 + Len(W_ED) ELSE q3, LAMBDA q4 :
    With(RunEnd(u, q4, IsSpace) + 1, LAMBDA q5 :
    With(q5 + Len(W_DUE), LAMBDA q6 :
    With(RunEnd(u, q6, IsSpace) + 1, LAMBDA q7 :
        IF /\ StartsAt(u, p, W_CGO)
           /\ q2 - q1 >= 1 /\ StartsAt(u, q2, W_OFFLOAD)
           /\ q5 - q4 >= 1 /\ StartsAt(u, q5, W_DUE)
           /\ q7 - q6 >= 1
           /\ (q7 <= Len(s) \/ q7 - q6 >= 2)
        THEN [ok |-> TRUE,
              reason |-> IF q7 <= Len(s) THEN Strip(SubSeq(s, q7, Len(s))) ELSE <<>>]
        ELSE NoMatch))))))))

\* reason_pat.search(line), with group(1).strip()
reason_match(s) ==
    With({p \in 1..Len(s) : reason_at(s, p).ok}, LAMBDA hit :
        IF hit = {} THEN NoMatch ELSE reason_at(s, SetMin(hit)))

\* data_pat.match(line), every group stripped:
\* ^(\d[\d\s]{5,15})\s{2,}(\d+)\s{2,}(.+?)\s{2,}([A-Z])\s{2,}([\d.]+)\s{2,}([A-Z]{3,6})\s*$
\* The last three fields are fixed by the end of the line; the piece count is
\* the right-most digit token that leaves a legal AWB before it (greedy group
\* 1) and the description is what lies between (lazy group 3).
data_match(s) ==
    With(RunStart(s, Len(s), IsSpace) - 1, LAMBDA n :
    With(RunStart(s, n, IsUpperLetter), LAMBDA b6 :
    With(RunStart(s, b6 - 1, IsSpace), LAMBDA sp3s :
    With(sp3s - 1, LAMBDA e5 :
    With(RunStart(s, e5, IsDigitDot), LAMBDA b5 :
    With(RunStart(s, b5 - 1, IsSpace), LAMBDA sp2s :
    With(sp2s - 1, LAMBDA g4 :
    With(g4 - 1, LAMBDA b :
    With(RunStart(s, b, IsSpace), LAMBDA a :
    LET tail_ok ==
            /\ n - b6 + 1 >= 3 /\ n - b6 + 1 <= 6
            /\ b6 - sp3s >= 2
            /\ e5 - b5 + 1 >= 1
            /\ b5 - sp2s >= 2
            /\ g4 >= 1 /\ IsUpperLetter(s[g4])
            /\ b - a + 1 >= 2
            /\ IsDigit(s[1])
        pcs_ok(ds) ==
            With(RunEnd(s, ds, IsDigit), LAMBDA de :
            With(RunStart(s, ds - 1, IsSpace), LAMBDA cD :
            With(RunEnd(s, de + 1, IsSpace), LAMBDA se :
            With(IF cD - 1 > 6 THEN cD - 1 ELSE 6, LAMBDA lo :
            With(IF ds - 3 < 16 THEN ds - 3 ELSE 16, LAMBDA hi :
                /\ IsDigit(s[ds]) /\ IsSpace(s[ds - 1])
                /\ ds - cD >= 2
                /\ \A k \in 1..(cD - 1) : IsDigitSpace(s[k])
                /\ lo <= hi
                /\ se - de >= 2
                /\ \/ se + 1 <= a - 1
                   \/ (de + 1 = a /\ b - a + 1 >= 5))))))
    IN  With(IF tail_ok THEN {ds \in 2..(a - 1) : pcs_ok(ds)} ELSE {}, LAMBDA cand :
        IF cand = {} THEN NoMatch
        ELSE With(SetMax(cand), LAMBDA ds :
             With(RunEnd(s, ds, IsDigit), LAMBDA de :
             With(RunStart(s, ds - 1, IsSpace), LAMBDA cD :
             With(RunEnd(s, de + 1, IsSpace), LAMBDA se :
                 [ok   |-> TRUE,
                  awb  |-> Strip(SubSeq(s, 1, cD - 1)),
                  pcs  |-> SubSeq(s, ds, de),
                  desc |-> IF se + 1 <= a - 1 THEN SubSeq(s, se + 1, a - 1) ELSE <<>>,
                  cls_ |-> <<s[g4]>>,
                  kgs  |-> SubSeq(s, b5, e5),
                  dest |-> SubSeq(s, b6, n)]))))))))))))))

\* lines 625-638
c_item(m) ==
    [item |-> <<>>, awb |-> m.awb, pcs |-> m.pcs, kgs |-> m.kgs, description |-> m.desc,
     class_ |-> m.cls_, reason |-> <<>>, email |-> <<>>, physical |-> <<>>,
     trolley |-> <<>>, cms |-> <<>>, remarks |-> <<>>]

\* the back-fill that gives the reason to every item, whatever it had
c_backfill_overwrite(items, reason) ==
    [k \in 1..Len(items) |-> [items[k] EXCEPT !.reason = reason]]

\* lines 644-646: the reason is given to every item that has none
c_backfill(items, reason) ==
    [k \in 1..Len(items) |->
        IF ~Truthy(items[k].reason) THEN [items[k] EXCEPT !.reason = reason] ELSE items[k]]

\* the lookahead window of line 616: j < i + 15
C_WINDOW == 15

RECURSIVE parse_c_block(_, _, _, _, _)
\* the inner while loop, lines 616-648, for the title at line i:
\* returns the final j, the items and the last reason
parse_c_block(lines, i, j, items, reason) ==
    IF ~(j <= Len(lines) /\ j < i + C_WINDOW)
    THEN [j |-> j, items |-> items, reason |-> reason]
    ELSE
    With(data_match(lines[j]), LAMBDA m_data :
    With(reason_match(lines[j]), LAMBDA m_rsn :
    With(IF m_data.ok THEN Append(items, c_item(m_data)) ELSE items, LAMBDA items1 :
        IF m_rsn.ok
        THEN parse_c_block(lines, i, j + 1, c_backfill(items1, m_rsn.reason), m_rsn.reason)
        ELSE parse_c_block(lines, i, j + 1, items1, reason))))

\* s.split()[-1]: the last whitespace-separated token
LastToken(s) ==
    LET t == Strip(s) IN SubSeq(t, RunStart(t, Len(t), LAMBDA c : ~IsSpace(c)), Len(t))

\* line 655
c_destination(items) ==
    IF Len(items) > 0 /\ ~Truthy(items[1].class_) THEN LastToken(items[1].reason) ELSE <<>>

RECURSIVE parse_c_from(_, _, _)
\* the outer while loop, lines 606-662
parse_c_from(lines, i, flights) ==
    IF i > Len(lines) THEN flights
    ELSE
    With(title_match(lines[i]), LAMBDA m_title :
        IF m_title.ok
        THEN With(parse_c_block(lines, i, i + 1, <<>>, <<>>), LAMBDA blk :
                 parse_c_from(lines, blk.j,
                    IF Len(blk.items) > 0 \/ Truthy(m_title.flight)
                    THEN Append(flights,
                             [flight      |-> m_title.flight,
                              date        |-> m_title.date,
                              std_etd     |-> <<>>,
                              destination |-> c_destination(blk.items),
                              format      |-> "C",
                              reason      |-> blk.reason,
                              items       |-> blk.items])
                    ELSE flights))
        ELSE parse_c_from(lines, i + 1, flights))

\* _parse_type_c(soup), on the stripped non-empty lines of soup.get_text("\n")
parse_type_c(lines) == parse_c_from(lines, 1, <<>>)

(***************************************************************************)
(* The document and extract_flights                                        *)
(*                                                                         *)
(* A document is the sequence of its blocks in document order: a table     *)
(* (its rows of cell texts, as row_texts returns them) or a line of text   *)
(* outside every table.  `pad` is whitespace between the blocks that no    *)
(* parser sees; it only changes the raw text.                              *)
(***************************************************************************)
TableBlock(rows) == [kind |-> "table", rows |-> rows]

TextBlock(line) == [kind |-> "text", line |-> line]

\* soup.find_all("table"), each as [row_texts(tr) for tr in rows]
doc_tables(doc) ==
    LET idx == {k \in 1..Len(doc.blocks) : doc.blocks[k].kind = "table"}
        RECURSIVE pick(_)
        pick(k) == IF k > Len(doc.blocks) THEN <<>>
                   ELSE IF k \in idx THEN <<doc.blocks[k].rows>> \o pick(k + 1)
                   ELSE pick(k + 1)
    IN  pick(1)

RECURSIVE Flatten(_)
Flatten(ss) == IF Len(ss) = 0 THEN <<>> ELSE ss[1] \o Flatten(Tail(ss))

\* lines 590-591: the stripped non-empty lines of soup.get_text("\n"); every
\* cell of a table is a text node of its own, hence a line of its own
doc_lines(doc) ==
    LET block_lines(b) == IF b.kind = "table" THEN Flatten(b.rows) ELSE <<b.line>>
        all == Flatten([k \in 1..Len(doc.blocks) |-> block_lines(doc.blocks[k])])
        RECURSIVE keep(_)
        keep(k) == IF k > Len(all) THEN <<>>
                   ELSE IF Truthy(Strip(all[k])) THEN <<Strip(all[k])>> \o keep(k + 1)
                   ELSE keep(k + 1)
    IN  keep(1)

\* the selector that keeps what the tables before gave and adds to it
select_step_accumulate(best, all_rows) ==
    IF Len(all_rows) < 2 THEN best
    ELSE With(parse_type_a(all_rows), LAMBDA result_a :
         IF Len(result_a) > 0 THEN best \o result_a
         ELSE best \o parse_type_b(all_rows))

\* lines 372-380 for one table: the new value of `best`
select_step(best, all_rows) ==
    IF Len(all_rows) < 2 THEN best
    ELSE With(parse_type_a(all_rows), LAMBDA result_a :
         IF Len(result_a) > 0
         THEN IF Len(result_a) > Len(best) THEN result_a ELSE best
         ELSE With(parse_type_b(all_rows), LAMBDA result_b :
              IF Len(result_b) > 0 /\ Len(result_b) > Len(best) THEN result_b
              ELSE best))

RECURSIVE select_tables(_, _, _)
\* the loop over the tables, lines 366-380
select_tables(tables, k, best) ==
    IF k > Len(tables) THEN best
    ELSE select_tables(tables, k + 1, select_step(best, tables[k]))

\* the selector that returns a manifest without content when no parser found one
extract_flights_never_empty(doc) ==
    With(select_tables(doc_tables(doc), 1, <<>>) \o parse_type_c(doc_lines(doc)),
         LAMBDA best :
            IF Len(best) > 0 THEN best
            ELSE <<[flight |-> <<>>, date |-> <<>>, std_etd |-> <<>>,
                    destination |-> <<>>, format |-> "", items |-> <<>>]>>)

\* extract_flights(html)
extract_flights(doc) ==
    select_tables(doc_tables(doc), 1, <<>>) \o parse_type_c(doc_lines(doc))

(***************************************************************************)
(* Specification of get_shift: every minute of the day is resolved once    *)
(***************************************************************************)
MinutesPerDay == 24 * 60

Idle ==
    /\ html = <<>> /\ flights_out = <<>> /\ phase = "idle"
    /\ now = [day |-> 0, mins |-> 0] /\ state_file = <<>> /\ files = <<>>
    /\ meta = <<>> /\ last = <<>> /\ life = <<>> /\ reports = <<>>

InitShift ==
    /\ mins \in 0..(MinutesPerDay - 1)
    /\ shift_out = ""
    /\ Idle

ResolveShift ==
    /\ shift_out = ""
    /\ shift_out' = get_shift(mins)
    /\ UNCHANGED <<mins, html, flights_out, phase, now, state_file, files, meta, last, life, reports>>

SpecShift == InitShift /\ [][ResolveShift]_vars

\* C4 as stated: 20:59 -> shift2, 21:00 -> shift3, 05:59 -> shift3, 06:00 -> shift1
C4_AsStated ==
    shift_out # "" =>
        /\ (mins = 20 * 60 + 59 => shift_out = "shift2")
        /\ (mins = 21 * 60 => shift_out = "shift3")
        /\ (mins = 5 * 60 + 59 => shift_out = "shift3")
        /\ (mins = 6 * 60 => shift_out = "shift1")

\* C4 amended: the evening boundary is 21:30, not 21:00: 20:59, 21:00 and 21:29
\* resolve to shift2 and 21:30 to shift3; 05:59 resolves to shift3 and 06:00
\* to shift1
C4_ShiftBoundaries ==
    shift_out # "" =>
        /\ (mins = 20 * 60 + 59 => shift_out = "shift2")
        /\ (mins = 21 * 60 => shift_out = "shift2")
        /\ (mins = 21 * 60 + 29 => shift_out = "shift2")
        /\ (mins = 21 * 60 + 30 => shift_out = "shift3")
        /\ (mins = 5 * 60 + 59 => shift_out = "shift3")
        /\ (mins = 6 * 60 => shift_out = "shift1")

C4_Witness == mins = 21 * 60 /\ shift_out = "shift2"

\* C5: every minute of the day gets exactly one shift: shift1 iff 360 <= m < 870,
\* shift2 iff 870 <= m < 1290, shift3 iff m >= 1290 or m < 360, and the minute
\* lies in the window the reports print for that shift and in no other
C5_ShiftPartition ==
    shift_out # "" =>
        /\ shift_out \in {"shift1", "shift2", "shift3"}
        /\ (shift_out = "shift1" <=> (360 <= mins /\ mins < 870))
        /\ (shift_out = "shift2" <=> (870 <= mins /\ mins < 1290))
        /\ (shift_out = "shift3" <=> (mins >= 1290 \/ mins < 360))
        /\ \A s \in {"shift1", "shift2", "shift3"} :
               InLabelWindow(mins, s) <=> s = shift_out
        /\ shift_labels(shift_out).from = shift_window(shift_out).start_hm
        /\ shift_labels(shift_out).to = shift_window(shift_out).end_hm

C5_Witness == mins = 0 /\ shift_out = "shift3"

(***************************************************************************)
(* Sample texts and tables the specifications draw their documents from    *)
(***************************************************************************)
T_WY223 == <<"W", "Y", "2", "2", "3">>

T_OV237 == <<"O", "V", "2", "3", "7">>

T_18JUL == <<"1", "8", ".", "J", "U", "L">>

T_27FEB == <<"2", "7", "F", "E", "B">>

T_COK == <<"C", "O", "K">>

T_MCT == <<"M", "C", "T">>

T_AWB1 == <<"9", "1", "0", "1", "2", "3", "4", "5">>

T_AWB2 == <<"9", "1", "0", "1", "2", "3", "4", "6">>

T_35 == <<"3", "5">>

T_781 == <<"7", "8", "1">>

T_790 == <<"7", "9", "0">>

T_COURIER == <<"C", "O", "U", "R", "I", "E", "R">>

T_SPACE == <<"S", "P", "A", "C", "E">>

T_FLIGHT_NO_COL == <<"F", "l", "i", "g", "h", "t", " ", "N", "o">>

T_STD_ETD == <<"S", "T", "D", "/", "E", "T", "D">>

T_1 == <<"1">>

T_2 == <<"2">>

T_NOTE == <<"R", "e", "g", "a", "r", "d", "s">>

T_TITLE == <<"O", "F", "F", "L", "O", "A", "D", "E", "D", " ", "C", "A", "R", "G", "O", " ", "O", "N", " ", "O", "V", "2", "3", "7", "/", "2", "7", "F", "E", "B">>

T_DATA == <<"7", "0", "3", " ", "1", "3", "4", "3", "6", "2", "7", "5", " ", " ", " ", "1", "4", " ", " ", " ", "S", "P", "O", "R", "T", "S", " ", "W", "E", "R", "A", "S", " ", " ", " ", "B", " ", " ", " ", "1", "9", "4", ".", "0", " ", " ", " ", "S", "K", "T", "D", "U", "S">>

T_RSN == <<"C", "G", "O", " ", "O", "F", "F", "L", "O", "A", "D", "E", "D", " ", "D", "U", "E", " ", "S", "P", "A", "C", "E">>

\* FLIGHT | <flt> | DATE | <date> | DESTINATION | <dest>
RowFlight(flt, date, dest) == <<W_FLIGHT, flt, W_DATE, date, W_DESTINATION, dest>>

RowSubHeader == <<W_AWB, W_PCS, W_KGS, W_DESCRIPTION, W_REASON>>

RowCargo(awb, pcs, kgs) == <<awb, pcs, kgs, T_COURIER, T_SPACE>>

\* a horizontal table: one flight with two shipment rows
TableA_Rows ==
    <<RowFlight(T_WY223, T_18JUL, T_COK), RowSubHeader,
      RowCargo(T_AWB1, T_35, T_781), RowCargo(T_AWB2, T_1, T_2)>>

\* a horizontal table: two flights, none with a shipment row
TableA_TwoEmpty ==
    <<RowFlight(T_WY223, T_18JUL, T_COK), RowSubHeader,
      RowFlight(T_OV237, T_27FEB, T_MCT), RowSubHeader>>

\* a columnar table whose flight column is titled "Flight No": one flight, two rows
TableB_Rows ==
    <<<<W_ITEM, W_DATE, T_FLIGHT_NO_COL, W_DEST, W_REASON>>,
      <<T_1, T_18JUL, T_WY223, T_COK, T_SPACE>>,
      <<T_2, T_18JUL, T_WY223, T_COK, T_SPACE>>>>

\* a columnar table with the column titles ITEM | DATE | FLIGHT | STD/ETD | DEST
TableB_Std ==
    <<<<W_ITEM, W_DATE, W_FLIGHT, T_STD_ETD, W_DEST, W_REASON>>,
      <<T_1, T_27FEB, T_OV237, <<>>, T_MCT, T_SPACE>>>>

\* a table of no known layout
TableNone == <<<<T_NOTE>>, <<T_NOTE, T_1>>>>

BlockPool ==
    {TableBlock(TableA_Rows), TableBlock(TableA_TwoEmpty), TableBlock(TableB_Rows),
     TableBlock(TableB_Std), TableBlock(TableNone),
     TextBlock(T_TITLE), TextBlock(T_DATA), TextBlock(T_RSN)}

\* the longest document of the selector specification, in blocks
MaxBlocks == 2

SeqsUpTo(S, n) == UNION {[1..k -> S] : k \in 0..n}

SelectDocs == {[blocks |-> b, pad |-> 0] : b \in SeqsUpTo(BlockPool, MaxBlocks)}

(***************************************************************************)
(* Specification of extract_flights on a bounded set of documents          *)
(***************************************************************************)
IdleStore ==
    /\ now = [day |-> 0, mins |-> 0] /\ state_file = <<>> /\ files = <<>>
    /\ meta = <<>> /\ last = <<>> /\ life = <<>> /\ reports = <<>>

InitSelect ==
    /\ html \in SelectDocs
    /\ flights_out = <<>>
    /\ phase = "input"
    /\ mins = 0 /\ shift_out = ""
    /\ IdleStore

ExtractFlights ==
    /\ phase = "input"
    /\ flights_out' = extract_flights(html)
    /\ phase' = "done"
    /\ UNCHANGED <<mins, shift_out, html, now, state_file, files, meta, last, life, reports>>

SpecSelect == InitSelect /\ [][ExtractFlights]_vars

RECURSIVE RowCount(_)
\* the number of shipment rows of a result, summed over its manifests
RowCount(result) ==
    IF Len(result) = 0 THEN 0 ELSE Len(result[1].items) + RowCount(Tail(result))

\* what the table parsers return for one table (type A, else type B)
TableResult(all_rows) ==
    IF Len(all_rows) < 2 THEN <<>>
    ELSE IF Len(parse_type_a(all_rows)) > 0 THEN parse_type_a(all_rows)
    ELSE parse_type_b(all_rows)

\* the non-empty results the selector chooses among
Candidates(doc) ==
    {TableResult(doc_tables(doc)[k]) : k \in 1..Len(doc_tables(doc))} \ {<<>>}

\* the part of the returned list that was selected among the tables
TablePart == SubSeq(flights_out, 1, Len(flights_out) - Len(parse_type_c(doc_lines(html))))

\* C9 as stated: the selected result has the greatest number of shipment rows
\* among the candidates, so one manifest with rows wins over several without
C9_AsStated ==
    phase = "done" => \A c \in Candidates(html) : RowCount(TablePart) >= RowCount(c)

\* C10 as stated: when a Horizontal and a Columnar result match equally well
\* (as many manifests, as many rows) and no candidate matches better, the
\* Horizontal one is returned, whatever the order of the tables
C10_AsStated ==
    phase = "done" =>
        \A a, b \in Candidates(html) :
            ( /\ a[1].format = "A" /\ b[1].format = "B"
              /\ Len(a) = Len(b) /\ RowCount(a) = RowCount(b)
              /\ \A c \in Candidates(html) : Len(c) <= Len(a) /\ RowCount(c) <= RowCount(a) )
            => (Len(TablePart) > 0 /\ TablePart[1].format = "A")

T_3 == <<"3">>

T_AKE1 == <<"A", "K", "E", "1">>

T_BT2 == <<"B", "T", "2">>

T_2215 == <<"2", "2", ":", "1", "5">>

\* FLIGHT | OV237 | DATE | 27FEB : a header row that names no destination
RowFlightNoDest == <<W_FLIGHT, T_OV237, W_DATE, T_27FEB>>

\* a row that holds a trolley/ULD token and nothing else
RowTrolley(token) == <<token, <<>>, <<>>, <<>>, <<>>>>

RowEmpty == <<<<>>, <<>>, <<>>, <<>>, <<>>>>

RowTotal == <<W_TOTAL, T_35, T_781, <<>>, <<>>>>

\* what follows the sub-header row of the first flight is made of these runs of
\* rows: shipment rows (one with the AWB "3"), trolley rows, an empty row, a
\* TOTAL row, a second flight with its sub-header row, a header row without
\* destination
RowUnits ==
    {<<RowCargo(T_AWB1, T_35, T_781)>>, <<RowCargo(T_3, T_1, T_2)>>,
     <<RowTrolley(T_AKE1)>>, <<RowTrolley(T_BT2)>>, <<RowEmpty>>, <<RowTotal>>,
     <<RowFlight(T_OV237, T_27FEB, T_MCT), RowSubHeader>>, <<RowFlightNoDest>>}

\* the longest table body, in runs of rows
MaxUnits == 3

\* horizontal tables: the header row of WY223, then its sub-header row or a
\* shipment row in its place, then the body
HorizontalTables ==
    {<<RowFlight(T_WY223, T_18JUL, T_COK), second>> \o Flatten(body) :
        second \in {RowSubHeader, RowCargo(T_AWB1, T_35, T_781)},
        body \in SeqsUpTo(RowUnits, MaxUnits)}

\* the column titles of the columnar layout and the cell of a data row under each
ColumnTitles == <<W_ITEM, W_DATE, W_FLIGHT, T_STD_ETD, W_DEST>>

ColumnValues == <<T_1, T_27FEB, T_OV237, T_2215, T_MCT>>

ColumnOrders == {p \in [1..5 -> 1..5] : \A i, j \in 1..5 : p[i] = p[j] => i = j}

\* columnar tables: the five column titles in any order, and one data row
ColumnarTables ==
    {<<[i \in 1..5 |-> ColumnTitles[p[i]]], [i \in 1..5 |-> ColumnValues[p[i]]]>> :
        p \in ColumnOrders}

\* FLIGHT | | DATE | 18.JUL | DESTINATION | COK : the cell of the flight number
\* is empty
RowFlightEmpty == RowFlight(<<>>, T_18JUL, T_COK)

\* horizontal tables whose header row has an empty flight number: the header
\* row, the sub-header row, and shipment and trolley rows
EmptyFlightTables ==
    {<<RowFlightEmpty, RowSubHeader>> \o Flatten(body) :
        body \in SeqsUpTo({<<RowCargo(T_AWB1, T_35, T_781)>>, <<RowTrolley(T_AKE1)>>},
                          MaxUnits)}

TableDocs ==
    {[blocks |-> <<TableBlock(rows)>>, pad |-> 0] :
        rows \in HorizontalTables \cup ColumnarTables \cup EmptyFlightTables}

InitTable ==
    /\ html \in TableDocs
    /\ flights_out = <<>>
    /\ phase = "input"
    /\ mins = 0 /\ shift_out = ""
    /\ IdleStore

\* the rows of the table of the document
table_rows == html.blocks[1].rows

ParseTypeA ==
    /\ phase = "input"
    /\ flights_out' = parse_type_a(table_rows)
    /\ phase' = "type_a"
    /\ UNCHANGED <<mins, shift_out, html, now, state_file, files, meta, last, life, reports>>

SpecTable == InitTable /\ [][ParseTypeA \/ ExtractFlights]_vars

\* C12 as stated: the header row of a columnar table is never accepted by the
\* horizontal parser, so the table yields no horizontal manifest and its
\* manifests are those of the columnar parser
C12_AsStated ==
    table_rows \in ColumnarTables =>
        /\ phase = "type_a" => flights_out = <<>>
        /\ phase = "done" =>
               /\ \A i \in 1..Len(flights_out) : flights_out[i].format # "A"
               /\ flights_out = parse_type_b(table_rows)

\* the AWB values the filter of C13 excludes: empty, without an alphanumeric
\* character, or a bare value of one or two digits
AwbExcluded(awb) ==
    \/ Len(awb) = 0
    \/ \A i \in 1..Len(awb) : ~IsAlnum(awb[i])
    \/ (Len(awb) \in 1..2 /\ \A i \in 1..Len(awb) : awb[i] \in Digits)

\* C13 as stated: the horizontal parser emits no shipment whose AWB is empty,
\* without an alphanumeric character, or a bare 1-2 digit value such as "3"
C13_AsStated ==
    phase = "type_a" =>
        \A k \in 1..Len(flights_out) :
            \A n \in 1..Len(flights_out[k].items) :
                ~AwbExcluded(flights_out[k].items[n].awb)

\* the table of the end-to-end scenario
ScenarioTable ==
    <<RowFlight(T_WY223, T_18JUL, T_COK), RowSubHeader, RowCargo(T_AWB1, T_35, T_781)>>

\* C14: the scenario table yields exactly one manifest, flight WY223 to COK,
\* with exactly one shipment: AWB 91012345, 35 pieces, weight 781, reason
\* SPACE; from the horizontal parser and from extract_flights alike
C14_EndToEnd ==
    (table_rows = ScenarioTable /\ phase \in {"type_a", "done"}) =>
        /\ Len(flights_out) = 1
        /\ flights_out[1].flight = T_WY223
        /\ flights_out[1].destination = T_COK
        /\ flights_out[1].format = "A"
        /\ Len(flights_out[1].items) = 1
        /\ flights_out[1].items[1].awb = T_AWB1
        /\ flights_out[1].items[1].pcs = T_35
        /\ flights_out[1].items[1].kgs = T_781
        /\ flights_out[1].items[1].reason = T_SPACE

C14_Witness ==
    /\ table_rows = ScenarioTable
    /\ phase = "done"
    /\ Len(flights_out) = 1
    /\ flights_out[1].items[1].awb = T_AWB1

\* the row is accepted as a flight header (lines 402-414)
AcceptedHeader(row) == a_header_candidate(row) /\ ~a_header_rejected(row)

\* how the body loop treats a data row under the columns c (lines 435-455)
RowIsTrolley(dr, c) ==
    /\ a_trolley_token(Upper(Strip(Get(dr, c.awb))))
    /\ ~(Truthy(Get(dr, c.pcs)) \/ Truthy(Get(dr, c.kgs))
           \/ Truthy(Get(dr, c.desc)) \/ Truthy(Get(dr, c.rsn)))

RowIsBlank(dr, c) ==
    ~(Truthy(Get(dr, c.awb)) \/ Truthy(Get(dr, c.pcs)) \/ Truthy(Get(dr, c.kgs))
        \/ Truthy(Get(dr, c.desc)) \/ Truthy(Get(dr, c.rsn)))

RowIsShipment(dr, c) == ~RowIsTrolley(dr, c) /\ ~RowIsBlank(dr, c)

\* the row after the header at i, taken as its sub-header
SubHeaderOf(rows, i) == IF i + 1 <= Len(rows) THEN rows[i + 1] ELSE <<>>

\* line 429: the row contains TOTAL
RowHasTotal(dr) == Contains(W_TOTAL, Upper(Join(dr)))

\* line 432: the row is taken for a new flight header by the body loop
RowLooksLikeHeader(dr) ==
    Contains(W_FLIGHT, Upper(Join(dr))) /\ Contains(W_DATE, Upper(Join(dr)))

\* the first row after the sub-header of the header at i that contains TOTAL
\* or is taken for a new flight header (past the end when there is none)
BodyEnd(rows, i) ==
    LET stops == {j \in (i + 2)..Len(rows) :
                     RowHasTotal(rows[j]) \/ RowLooksLikeHeader(rows[j])}
    IN  IF stops = {} THEN Len(rows) + 1 ELSE SetMin(stops)

RECURSIVE ScannedHeaders(_, _)
\* the accepted header rows the scan meets when it goes as C18 says: a TOTAL
\* row is consumed, a row that ends a body as a flight header is scanned next
ScannedHeaders(rows, i) ==
    IF i > Len(rows) THEN <<>>
    ELSE IF AcceptedHeader(rows[i])
    THEN LET e == BodyEnd(rows, i)
         IN  <<i>> \o ScannedHeaders(rows,
                          IF e <= Len(rows) /\ RowHasTotal(rows[e]) THEN e + 1 ELSE e)
    ELSE ScannedHeaders(rows, i + 1)

\* C18 as stated: every accepted flight header the scan meets yields its own
\* manifest, in document order, holding exactly the shipment rows between its
\* sub-header row and the first following row that contains TOTAL or is a
\* new flight header; and a row that ends a body as a new flight header is
\* the header of the next manifest
C18_AsStated ==
    (phase = "type_a" /\ table_rows \in HorizontalTables) =>
        LET hs == ScannedHeaders(table_rows, 1) IN
        /\ Len(flights_out) = Len(hs)
        /\ \A k \in 1..Len(hs) :
               LET e == BodyEnd(table_rows, hs[k]) IN
               /\ flights_out[k].flight = a_flight_num(table_rows[hs[k]])
               /\ Len(flights_out[k].items)
                    = Cardinality({j \in (hs[k] + 2)..(e - 1) :
                          RowIsShipment(table_rows[j],
                              a_columns(SubHeaderOf(table_rows, hs[k])))})
               /\ (e <= Len(table_rows) /\ ~RowHasTotal(table_rows[e]))
                      => (k + 1 <= Len(hs) /\ hs[k + 1] = e)

\* the rows of the body of the first flight, whose header is the first row of
\* the table: from the row after the sub-header up to the row the body loop
\* stops at (lines 426-433)
FirstBody == 3..(BodyEnd(table_rows, 1) - 1)

FirstColumns == a_columns(SubHeaderOf(table_rows, 1))

FirstShipments == {j \in FirstBody : RowIsShipment(table_rows[j], FirstColumns)}

FirstTrolleys == {j \in FirstBody : RowIsTrolley(table_rows[j], FirstColumns)}

\* the row of the k-th shipment of the first flight
FirstShipmentRow(k) ==
    CHOOSE j \in FirstShipments : Cardinality({x \in FirstShipments : x <= j}) = k

\* C19 as stated: a trolley row creates no shipment, so the shipments of a
\* flight are its non-trolley, non-empty data rows; the token of a trolley
\* row with a shipment before it is the trolley of that shipment (until a
\* later trolley row replaces it), and the token of a trolley row with no
\* shipment before it is the trolley the next shipment is created with
C19_AsStated ==
    (phase = "type_a" /\ Len(flights_out) >= 1) =>
        /\ Len(flights_out[1].items) = Cardinality(FirstShipments)
        /\ \A t \in FirstTrolleys :
               LET before == Cardinality({j \in FirstShipments : j < t})
                   n      == Cardinality(FirstShipments)
                   token  == Get(table_rows[t], FirstColumns.awb)
                   \* the trolley rows that come after the shipment and before the next
                   after(k) == {u \in FirstTrolleys :
                                   /\ u > FirstShipmentRow(k)
                                   /\ (k = n \/ u < FirstShipmentRow(k + 1))}
               IN  IF before > 0
                   THEN t = SetMax(after(before))
                            => flights_out[1].items[before].trolley = token
                   ELSE (n > 0 /\ after(1) = {})
                            => flights_out[1].items[1].trolley = token

\* C19 amended: a trolley row creates no shipment, and the shipments of a
\* flight are its non-trolley, non-empty data rows in order. A shipment has
\* one trolley, and the last trolley row wins: the trolley of a shipment is
\* the token of the last trolley row between it and the next shipment, for
\* the first shipment the trolley rows before it included; a token followed
\* by another trolley row before the next shipment is dropped
C19_LastTrolleyWins ==
    (phase = "type_a" /\ Len(flights_out) >= 1) =>
        LET items == flights_out[1].items
            n     == Cardinality(FirstShipments)
            span(k) == {t \in FirstTrolleys :
                           /\ (k = 1 \/ t > FirstShipmentRow(k))
                           /\ (k = n \/ t < FirstShipmentRow(k + 1))}
        IN  /\ Len(items) = n
            /\ \A k \in 1..n :
                   /\ items[k].awb = Get(table_rows[FirstShipmentRow(k)], FirstColumns.awb)
                   /\ items[k].trolley
                        = IF span(k) = {} THEN <<>>
                          ELSE Get(table_rows[SetMax(span(k))], FirstColumns.awb)

C19_Witness ==
    /\ phase = "type_a"
    /\ Len(flights_out) >= 1
    /\ Len(flights_out[1].items) = 1
    /\ Cardinality(FirstTrolleys) = 2
    /\ \A t \in FirstTrolleys : t < FirstShipmentRow(1)
    /\ flights_out[1].items[1].trolley = T_BT2

\* the fixed column ordering 0,1,2,3,4 of C20, as one-based positions
DefaultColumns == [awb |-> 1, pcs |-> 2, kgs |-> 3, desc |-> 4, rsn |-> 5]

\* C20 as stated: when the row after the header of the first flight names
\* none of the columns, the data rows of the flight are extracted with the
\* columns at their default positions
C20_AsStated ==
    ( /\ phase = "type_a" /\ table_rows \in HorizontalTables
      /\ \A f \in DOMAIN FirstColumns : FirstColumns[f] = NoIndex ) =>
        /\ Len(flights_out) >= 1
        /\ flights_out[1].items
             = parse_a_body(table_rows, 3, DefaultColumns, <<>>, <<>>).items

(***************************************************************************)
(* The store: slugify, compute_sha256, save_flights                        *)
(***************************************************************************)
\* max_length of slugify
SLUG_MAX == 80

RECURSIVE CollapseSpaces(_)
\* re.sub(r"\s+", "_", text)
CollapseSpaces(s) ==
    LET spaces == {i \in 1..Len(s) : IsSpace(s[i])}
    IN  IF spaces = {} THEN s
        ELSE SubSeq(s, 1, SetMin(spaces) - 1) \o <<"_">>
                 \o CollapseSpaces(SubSeq(s, RunEnd(s, SetMin(spaces), IsSpace) + 1, Len(s)))

\* re.sub(r"[^A-Za-z0-9_-]", "_", text)
ReplaceUnsafe(s) ==
    [i \in 1..Len(s) |-> IF IsAlnum(s[i]) \/ s[i] \in {"_", "-"} THEN s[i] ELSE "_"]

\* slugify without the cut at max_length
slugify_uncapped(text) ==
    LET t0 == Strip(IF Truthy(text) THEN text ELSE W_UNKNOWN)
        t1 == ReplaceUnsafe(CollapseSpaces(t0))
    IN  IF Truthy(t1) THEN t1 ELSE W_UNKNOWN

\* slugify(text, max_length=80)
slugify(text) ==
    LET t0 == Strip(IF Truthy(text) THEN text ELSE W_UNKNOWN)
        t1 == ReplaceUnsafe(CollapseSpaces(t0))
        t2 == IF Truthy(t1) THEN t1 ELSE W_UNKNOWN
    IN  SubSeq(t2, 1, IF Len(t2) < SLUG_MAX THEN Len(t2) ELSE SLUG_MAX)

W_JSON == <<".", "j", "s", "o", "n">>

\* lines 681-683: the file name of a flight
flight_filename(flight) ==
    slugify(flight.flight \o <<"_">> \o flight.date \o <<"_">> \o flight.destination) \o W_JSON

\* compute_sha256: a digest of the raw text; SHA-256 is taken to be free of
\* collisions, so two digests are equal exactly when the raw texts are
compute_sha256(content) == <<"sha256", content>>

\* a dict with one key set
Put(f, k, v) == [x \in (DOMAIN f) \cup {k} |-> IF x = k THEN v ELSE f[x]]

\* lines 672-674: the folder of a run at time t
run_folder(t) == [day |-> t.day, shift |-> get_shift(t.mins)]

FileKey(folder, name) == <<folder.day, folder.shift, name>>

\* the entry of a new file name with the first save counted as an update
new_entry_counted(flight, t) ==
    [flight |-> flight.flight, date |-> flight.date, dest |-> flight.destination,
     created_at |-> t, updated_at |-> t, updates |-> 1]

\* lines 691-697: the entry made for a file name that meta.json does not hold yet
new_entry(flight, t) ==
    [flight |-> flight.flight, date |-> flight.date, dest |-> flight.destination,
     created_at |-> t, updated_at |-> t, updates |-> 0]

\* the entry made anew at every save, whatever meta.json holds
entry_of_fresh(ms, key, flight, t) == new_entry(flight, t)

\* line 690: meta["flights"].get(filename, {...})
entry_of(ms, key, flight, t) ==
    IF key \in DOMAIN ms THEN ms[key] ELSE new_entry(flight, t)

\* the save that stamps created_at as well as updated_at
touch_entry_restamp(entry, existed, t) ==
    [entry EXCEPT !.updates = IF existed THEN @ + 1 ELSE @,
                  !.updated_at = t, !.created_at = t]

\* the save that counts an overwritten file down instead of up
touch_entry_decrement(entry, existed, t) ==
    [entry EXCEPT !.updates = IF existed THEN @ - 1 ELSE @, !.updated_at = t]

\* lines 698-700
touch_entry(entry, existed, t) ==
    [entry EXCEPT !.updates = IF existed THEN @ + 1 ELSE @, !.updated_at = t]

\* line 687: the payload written to the flight file
file_payload(flight, t) == [flight |-> flight, saved_at |-> t, retro_enriched_at |-> <<>>]

(***************************************************************************)
(* AirLabs: what the service answers is an input of the run                *)
(***************************************************************************)
T_DXB == <<"D", "X", "B">>

T_1000 == <<"1", "0", ":", "0", "0">>

NoInfo == [found |-> FALSE]

\* AIRLABS_API_KEY is not set: no flight is looked up
ApiNone == [flt \in {T_WY223, T_OV237} |-> NoInfo]

\* the service knows WY223: it departs at 10:00 for DXB
ApiDXB == [flt \in {T_WY223, T_OV237} |->
              IF flt = T_WY223
              THEN [found |-> TRUE, std |-> T_1000, etd |-> <<>>, dest |-> T_DXB]
              ELSE NoInfo]

ApiPool == {ApiNone, ApiDXB}

\* fetch_flight_info_airlabs(flight_iata, ...): None without a flight number
fetch_flight_info_airlabs(api, flt) ==
    LET f == Upper(Strip(flt))
    IN  IF ~Truthy(f) \/ f \notin DOMAIN api THEN NoInfo ELSE api[f]

\* the STD/ETD text made of an answer, lines 1717-1720 and 1641-1645
std_etd_of(info) ==
    IF Truthy(info.std) /\ Truthy(info.etd) /\ info.std # info.etd
    THEN info.std \o <<"|">> \o info.etd
    ELSE IF Truthy(info.std) THEN info.std
    ELSE <<>>

\* lines 1711-1724 for one flight
enrich_flight(api, f) ==
    With(fetch_flight_info_airlabs(api, f.flight), LAMBDA info :
        IF ~Truthy(Strip(f.flight)) \/ ~info.found THEN f
        ELSE With(std_etd_of(info), LAMBDA std_etd :
             With(IF Truthy(std_etd) THEN [f EXCEPT !.std_etd = std_etd] ELSE f, LAMBDA f1 :
                 IF Truthy(Strip(info.dest))
                 THEN [f1 EXCEPT !.destination = Strip(info.dest)] ELSE f1)))

\* lines 1709-1727
enrich(api, flights) == [k \in 1..Len(flights) |-> enrich_flight(api, flights[k])]

\* lines 1612-1649 for one stored file: the payload retroactive_enrich_all leaves
retro_payload(api, p, t) ==
    With(Strip(p.flight.flight), LAMBDA flt :
    With(fetch_flight_info_airlabs(api, flt), LAMBDA info :
    With(IF info.found THEN Strip(info.dest) ELSE <<>>, LAMBDA new_dest :
    With(Truthy(new_dest) /\ new_dest # Strip(p.flight.destination), LAMBDA dest_change :
    With(IF info.found THEN std_etd_of(info) ELSE <<>>, LAMBDA new_std :
    With(Truthy(new_std) /\ ~Truthy(Strip(p.flight.std_etd)), LAMBDA std_change :
    With(IF dest_change THEN [p.flight EXCEPT !.destination = new_dest] ELSE p.flight,
         LAMBDA f1 :
    With(IF std_change THEN [f1 EXCEPT !.std_etd = new_std] ELSE f1, LAMBDA f2 :
        IF ~Truthy(flt) \/ ~info.found \/ ~(dest_change \/ std_change) THEN p
        ELSE [p EXCEPT !.flight = f2, !.retro_enriched_at = t]))))))))

\* retroactive_enrich_all(now) on the flight files
retroactive_enrich_all(api, fs, t) == [key \in DOMAIN fs |-> retro_payload(api, fs[key], t)]

(***************************************************************************)
(* The report pages                                                        *)
(***************************************************************************)
\* docs/<date>/<shift>/index.html
ShiftPage(folder) == <<"shift", folder.day, folder.shift>>

\* docs/index.html
IndexPage == <<"index", 0, "">>

\* build_shift_report(date_dir, shift) at time t: the page of the folder is
\* written (line 1312); the folder exists when the run stored a file in it
build_shift_report(rp, folder, t) == Put(rp, ShiftPage(folder), t)

\* build_root_index(now): docs/index.html is written (line 1582)
build_root_index(rp, t) == Put(rp, IndexPage, t)

\* lines 1594-1600 and 1657-1667 of retroactive_enrich_all: without the API key
\* or without data/ nothing is built; else the page of every folder of data/
\* and the root index are written again
retro_rebuild(api, fs, rp, t) ==
    IF api = ApiNone \/ DOMAIN fs = {} THEN rp
    ELSE [pg \in (DOMAIN rp) \cup {ShiftPage([day |-> key[1], shift |-> key[2]]) :
                                       key \in DOMAIN fs} \cup {IndexPage} |-> t]

(***************************************************************************)
(* The documents of the runs                                               *)
(***************************************************************************)
\* a horizontal table of one flight with one shipment row of the given weight
TableOne(flt, date, dest, kgs) ==
    <<RowFlight(flt, date, dest), RowSubHeader, RowCargo(T_AWB1, T_35, kgs)>>

Doc(blocks, pad) == [blocks |-> blocks, pad |-> pad]

\* one flight, WY223 of 18.JUL to COK
DocOne == Doc(<<TableBlock(TableOne(T_WY223, T_18JUL, T_COK, T_781))>>, 0)

\* the same with the weight of its shipment altered
DocOneWeight == Doc(<<TableBlock(TableOne(T_WY223, T_18JUL, T_COK, T_790))>>, 0)

\* DocOne with other incidental whitespace in the raw text
DocOnePadded == Doc(<<TableBlock(TableOne(T_WY223, T_18JUL, T_COK, T_781))>>, 1)

\* DocOne with a second flight added to the table
DocTwo ==
    Doc(<<TableBlock(TableOne(T_WY223, T_18JUL, T_COK, T_781)
                     \o TableOne(T_OV237, T_27FEB, T_MCT, T_781))>>, 0)

\* a table that holds the flight of DocOne twice
DocTwice ==
    Doc(<<TableBlock(TableOne(T_WY223, T_18JUL, T_COK, T_781)
                     \o TableOne(T_WY223, T_18JUL, T_COK, T_781))>>, 0)

\* a document of no known layout
DocNone == Doc(<<TableBlock(TableNone)>>, 0)

MainDocs == {DocOne, DocOneWeight, DocOnePadded, DocTwo, DocTwice, DocNone}

\* the file name of each flight of a list, lines 681-683
file_names(flights) == [k \in 1..Len(flights) |-> flight_filename(flights[k])]

\* lines 1701-1727 tabulated over the documents of the runs and the answers of
\* AirLabs: the flights extracted, the flights after the AirLabs step that
\* save_flights is given, and the file name of each of these
Prepared ==
    [d \in MainDocs, api \in ApiPool |->
        With(extract_flights(d), LAMBDA flights :
        With(enrich(api, flights), LAMBDA saved :
            [flights |-> flights, saved |-> saved, names |-> file_names(saved)]))]

(***************************************************************************)
(* save_flights                                                            *)
(***************************************************************************)
RECURSIVE save_from(_, _, _, _, _, _, _)
\* the loop of save_flights, lines 680-701, from flight k on; names[k] is the
\* file name of flights[k]
save_from(flights, names, k, folder, t, fs, ms) ==
    IF k > Len(flights) THEN [files |-> fs, meta |-> ms]
    ELSE
    LET flight  == flights[k]
        key     == FileKey(folder, names[k])
        existed == key \in DOMAIN fs
        entry   == touch_entry(entry_of(ms, key, flight, t), existed, t)
    IN  save_from(flights, names, k + 1, folder, t,
                  Put(fs, key, file_payload(flight, t)), Put(ms, key, entry))

\* save_flights(flights, now) on the store (fs, ms), names = file_names(flights)
save_flights(flights, names, t, fs, ms) ==
    save_from(flights, names, 1, run_folder(t), t, fs, ms)

(***************************************************************************)
(* main(): one run of the monitor                                          *)
(***************************************************************************)
\* state.txt does not exist
NoState == <<>>

\* the runs of one behaviour
MaxRuns == 3

\* the local times a run may start at: 10:00, 11:00, 12:00 and 23:00 of day 0
\* and 01:00 of day 1 (three times in one shift, a later shift, the night
\* past midnight)
RunTimes ==
    {[day |-> 0, mins |-> 10 * 60], [day |-> 0, mins |-> 11 * 60],
     [day |-> 0, mins |-> 12 * 60], [day |-> 0, mins |-> 23 * 60],
     [day |-> 1, mins |-> 1 * 60]}

\* the clock moves forward between two runs
Later(t, u) == u.day > t.day \/ (u.day = t.day /\ u.mins > t.mins)

\* the file names save_flights writes
NamesOf(names) == {names[k] : k \in 1..Len(names)}

\* the first flight of the list stored under a file name
FirstNamed(flights, names, name) ==
    flights[SetMin({k \in 1..Len(names) : names[k] = name})]

\* how many flights of the list are stored under a file name
Occurrences(names, name) == Cardinality({k \in 1..Len(names) : names[k] = name})

\* two versions of a flight that differ in the weight of exactly one shipment
WeightAltered(old, new) ==
    /\ Len(old.items) = Len(new.items)
    /\ [old EXCEPT !.items = <<>>] = [new EXCEPT !.items = <<>>]
    /\ Cardinality({k \in 1..Len(old.items) : old.items[k] # new.items[k]}) = 1
    /\ \A k \in 1..Len(old.items) : [old.items[k] EXCEPT !.kgs = <<>>] = [new.items[k] EXCEPT !.kgs = <<>>]

\* how a flight of this run relates to what the store held for its key
Resubmission(doc, key, flight) ==
    IF key \notin DOMAIN files THEN "first"
    ELSE IF state_file = compute_sha256(doc) THEN "identical"
    ELSE IF files[key].flight = flight THEN "same"
    ELSE IF WeightAltered(files[key].flight, flight) THEN "weight"
    ELSE "other"

\* the record of a key's first three runs
Logged(lf, key, e) ==
    IF key \notin DOMAIN lf THEN Put(lf, key, <<e>>)
    ELSE IF Len(lf[key]) < 3 THEN Put(lf, key, Append(lf[key], e))
    ELSE lf

\* the hash check that never stops the run
no_change_never(doc, force) == FALSE

\* lines 1693-1699: the run stops because the document hash is the stored one
no_change(doc, force) ==
    state_file # NoState /\ state_file = compute_sha256(doc) /\ ~force

\* main() with RETRO_ENRICH off: the document downloaded, the local time,
\* FORCE_REBUILD and the answers of AirLabs are the inputs of the run
Main(doc, t, force, api) ==
    /\ last.n < MaxRuns
    /\ Later(now, t)
    /\ now' = t
    /\ html' = doc
    /\ UNCHANGED <<mins, shift_out, flights_out, phase>>
    /\ \E run \in {Prepared[doc, api]} :
       \E store \in {save_flights(run.saved, run.names, t, files, meta)} :
       \E keys \in {{FileKey(run_folder(t), nm) : nm \in NamesOf(run.names)}} :
       IF no_change(doc, force)
       THEN /\ UNCHANGED <<state_file, files, meta, reports>>
            /\ last' = [last EXCEPT !.n = @ + 1, !.kind = "nochange", !.forced = FALSE,
                                    !.flights = <<>>, !.names = <<>>, !.existed = {}]
            /\ life' = [key \in DOMAIN life |->
                           IF key \in last.current /\ Len(life[key]) < 3
                           THEN Append(life[key],
                                    [class |-> "Unchanged", resub |-> "identical", n |-> 1,
                                     force |-> FALSE, updates |-> meta[key].updates])
                           ELSE life[key]]
       ELSE IF Len(run.flights) = 0
       THEN /\ state_file' = compute_sha256(doc)
            /\ UNCHANGED <<files, meta, life, reports>>
            /\ last' = [last EXCEPT !.n = @ + 1, !.kind = "empty", !.flights = <<>>,
                                    !.forced = force /\ state_file = compute_sha256(doc),
                                    !.names = <<>>, !.existed = {}, !.current = {}]
       ELSE /\ files' = store.files
            /\ meta' = store.meta
            /\ reports' = build_root_index(build_shift_report(reports, run_folder(t), t), t)
            /\ state_file' = compute_sha256(doc)
            /\ last' = [n |-> last.n + 1, kind |-> "saved",
                        forced |-> force /\ state_file = compute_sha256(doc),
                        flights |-> run.saved, names |-> run.names,
                        existed |-> {key \in keys : key \in DOMAIN files},
                        current |-> keys]
            /\ life' = [key \in (DOMAIN life) \cup keys |->
                           IF key \in keys
                           THEN Logged(life, key,
                                    [class |-> IF key \in DOMAIN files THEN "Updated" ELSE "New",
                                     resub |-> Resubmission(doc, key,
                                                  FirstNamed(run.saved, run.names, key[3])),
                                     n |-> Occurrences(run.names, key[3]),
                                     force |-> force /\ state_file = compute_sha256(doc),
                                     updates |-> store.meta[key].updates])[key]
                           ELSE life[key]]

\* main() with RETRO_ENRICH on
MainRetro(t, api) ==
    /\ last.n < MaxRuns
    /\ Later(now, t)
    /\ now' = t
    /\ files' = retroactive_enrich_all(api, files, t)
    /\ reports' = retro_rebuild(api, files, reports, t)
    /\ last' = [last EXCEPT !.n = @ + 1, !.kind = "retro", !.forced = FALSE,
                            !.flights = <<>>, !.names = <<>>, !.existed = {}]
    /\ UNCHANGED <<mins, shift_out, html, flights_out, phase, state_file, meta, life>>

Init ==
    /\ mins = 0 /\ shift_out = ""
    /\ html = <<>> /\ flights_out = <<>> /\ phase = "idle"
    /\ now = [day |-> 0, mins |-> 0]
    /\ state_file = NoState
    /\ files = <<>>
    /\ meta = <<>>
    /\ last = [n |-> 0, kind |-> "start", forced |-> FALSE, flights |-> <<>>,
               names |-> <<>>, existed |-> {}, current |-> {}]
    /\ life = <<>>
    /\ reports = <<>>

Run == \E doc \in MainDocs, t \in RunTimes, force \in BOOLEAN, api \in ApiPool :
           Main(doc, t, force, api)

RunRetro == \E t \in RunTimes, api \in ApiPool : MainRetro(t, api)

Next == Run \/ RunRetro

Spec == Init /\ [][Next]_vars

(***************************************************************************)
(* Change tracking over the runs of main()                                 *)
(***************************************************************************)
\* the step is one run of main() that got past the RETRO_ENRICH branch
MonitorRun == last'.n = last.n + 1 /\ last'.kind \in {"nochange", "empty", "saved"}

\* the run of this step wrote key again, with the content the store held
SavedUnchanged(key) ==
    /\ last'.kind = "saved"
    /\ key \in last'.existed
    /\ files'[key].flight = files[key].flight

\* the run of this step wrote key again, with other content than the store held
SavedChanged(key) ==
    /\ last'.kind = "saved"
    /\ key \in last'.existed
    /\ files'[key].flight # files[key].flight

\* the run of this step got the document of the run before it again, in the
\* folder that run stored key in
SeenIdentical(key) ==
    /\ last'.kind = "nochange"
    /\ key \in last.current
    /\ <<key[1], key[2]>> = <<run_folder(now').day, run_folder(now').shift>>

C2_AsStated ==
    [][MonitorRun =>
          \A key \in DOMAIN meta :
              meta'[key].updates - meta[key].updates
                  = IF SavedChanged(key) THEN 1 ELSE 0]_vars

C6_AsStated ==
    [][MonitorRun =>
          \A key \in DOMAIN meta :
              (SavedUnchanged(key) \/ SeenIdentical(key)) =>
                  /\ meta'[key].updated_at = now'
                  /\ meta'[key].updates = meta[key].updates]_vars

\* C7: created_at is set once, to the time of the run that first stores the
\* entry, and no later run changes it
C7_CreatedOnce ==
    [][/\ DOMAIN meta \subseteq DOMAIN meta'
       /\ \A key \in DOMAIN meta' :
              IF key \in DOMAIN meta
              THEN meta'[key].created_at = meta[key].created_at
              ELSE meta'[key].created_at = now']_vars

C7_Witness ==
    \E key \in DOMAIN meta :
        /\ key \in last.existed
        /\ meta[key].updated_at = now
        /\ Later(meta[key].created_at, now)

\* C8: the update count of an entry is an integer >= 0 and no run lowers it
C8_UpdatesMonotone ==
    [][\A key \in DOMAIN meta' :
           /\ meta'[key].updates \in Nat
           /\ key \in DOMAIN meta => meta'[key].updates >= meta[key].updates]_vars

C8_Witness == \E key \in DOMAIN meta : meta[key].updates >= 2

(***************************************************************************)
(* Documents without a known layout, and the document hash                 *)
(***************************************************************************)
\* C15: a document that matches no known layout gives the empty list, and the
\* run that gets it ends normally (at the return of the empty list, or
\* earlier at the unchanged hash) with every flight file and every meta
\* entry as it was
C15_NoLayoutNoError ==
    [][(MonitorRun /\ html' = DocNone) =>
          /\ \A api \in ApiPool : Prepared[DocNone, api].flights = <<>>
          /\ last'.kind \in {"empty", "nochange"}
          /\ files' = files
          /\ meta' = meta]_vars

C15_Witness ==
    /\ html = DocNone
    /\ last.kind = "empty"
    /\ DOMAIN files # {}
    /\ DOMAIN meta # {}
    /\ state_file = compute_sha256(DocNone)

\* C17 as stated: a run whose document differs only in incidental whitespace
\* from the document the stored hash was taken of (the same blocks, hence the
\* same extracted list) computes the stored hash again
C17_AsStated ==
    [][MonitorRun =>
          \A d \in MainDocs :
              ( /\ state_file = compute_sha256(d)
                /\ d.blocks = html'.blocks
                /\ \A api \in ApiPool : Prepared[d, api].flights = Prepared[html', api].flights )
              => compute_sha256(html') = state_file]_vars

(***************************************************************************)
(* The unchanged document and the state file                               *)
(***************************************************************************)
\* C25: a run that downloads the document whose hash state.txt holds, with
\* FORCE_REBUILD off, writes nothing: the flight files, the entries of
\* meta.json, the report pages and state.txt are what they were
C25_NoChangeNoWrite ==
    [][(/\ MonitorRun
        /\ state_file # NoState
        /\ state_file = compute_sha256(html')
        /\ ~last'.forced)
           => /\ files' = files
              /\ meta' = meta
              /\ reports' = reports
              /\ state_file' = state_file]_vars

\* such a run over a store that holds files and report pages of earlier runs
C25_Witness ==
    /\ last.kind = "nochange"
    /\ state_file = compute_sha256(html)
    /\ DOMAIN files # {}
    /\ \E key \in DOMAIN meta : meta[key].updated_at # now
    /\ IndexPage \in DOMAIN reports /\ reports[IndexPage] # now

\* C28 as stated: whatever runs came before, the name of every stored flight
\* file is the name computed from the flight, date and destination the file
\* holds, which is the name build_shift_report looks its meta entry up by
C28_AsStated ==
    \A key \in DOMAIN files :
        /\ key[3] = flight_filename(files[key].flight)
        /\ FileKey([day |-> key[1], shift |-> key[2]], flight_filename(files[key].flight))
               \in DOMAIN meta

(***************************************************************************)
(* The folder of a run and the window its shift is shown with              *)
(***************************************************************************)
\* minutes since 00:00 of day 0
AbsMins(t) == t.day * MinutesPerDay + t.mins

\* _shift_window(date_dir, shift) in minutes since 00:00 of day 0
WindowOf(day, shift) ==
    [start |-> day * MinutesPerDay + HmToMins(shift_window(shift).start_hm),
     end   |-> (day + shift_window(shift).add_day) * MinutesPerDay
                   + HmToMins(shift_window(shift).end_hm)]

\* C29 as stated: the folder a run stores its flights in is the one whose
\* displayed window contains the time of the run
C29_AsStated ==
    last.kind = "saved" =>
        \A key \in last.current :
            /\ WindowOf(key[1], key[2]).start <= AbsMins(now)
            /\ AbsMins(now) < WindowOf(key[1], key[2]).end

(***************************************************************************)
(* Runs that abort: main() has no try/except around its steps, so an       *)
(* exception raised by a step ends the run where it is                     *)
(***************************************************************************)
\* the step that raises: the download, the extraction or the AirLabs step
\* (nothing is written yet), save_flights (some flight files are written,
\* meta.json is not: it is written after the loop, line 703),
\* build_shift_report (the save is complete), build_root_index (the page of
\* the shift is written too)
AbortStages == {"download", "extract", "save", "report", "index"}

AbortKinds == {"aborted_" \o stage : stage \in AbortStages}

\* state.txt after a run that aborted at a stage: what it was, the write an
\* aborting run has made would be none
state_at_abort_early(doc, stage) ==
    IF stage \in {"report", "index"} THEN compute_sha256(doc) ELSE state_file

\* state.txt after a run that aborted at a stage: both writes of state.txt
\* (lines 1706 and 1739) are the last statement of their path
state_at_abort(doc, stage) == state_file

\* main() with RETRO_ENRICH off that aborts at a stage; when save_flights
\* raises, the files of the first k flights are written
MainAborted(doc, t, force, api, stage, k) ==
    /\ last.n < MaxRuns
    /\ Later(now, t)
    /\ stage # "download" => ~no_change(doc, force)
    /\ now' = t
    /\ html' = IF stage = "download" THEN html ELSE doc
    /\ state_file' = state_at_abort(doc, stage)
    /\ UNCHANGED <<mins, shift_out, flights_out, phase, life>>
    /\ \E run \in {Prepared[doc, api]} :
           /\ stage \in {"save", "report", "index"} => Len(run.flights) > 0
           /\ k \in 0..Len(run.saved)
           /\ stage # "save" => k = Len(run.saved)
           /\ \E store \in {save_flights(SubSeq(run.saved, 1, k), SubSeq(run.names, 1, k),
                                          t, files, meta)} :
                  /\ files' = IF stage \in {"save", "report", "index"} THEN store.files
                              ELSE files
                  /\ meta' = IF stage \in {"report", "index"} THEN store.meta ELSE meta
    /\ reports' = IF stage = "index" THEN build_shift_report(reports, run_folder(t), t)
                  ELSE reports
    /\ last' = [last EXCEPT !.n = @ + 1, !.kind = "aborted_" \o stage,
                            !.forced = force /\ state_file = compute_sha256(doc),
                            !.flights = <<>>, !.names = <<>>, !.existed = {}]

\* the documents and the times of the runs that may abort: one flight, two
\* flights, no known layout; three times of one shift
AbortDocs == {DocOne, DocTwo, DocNone}

AbortTimes == {u \in RunTimes : u.day = 0 /\ u.mins <= 12 * 60}

RunComplete ==
    \E doc \in AbortDocs, t \in AbortTimes, force \in BOOLEAN : Main(doc, t, force, ApiNone)

RunAborted ==
    \E doc \in AbortDocs, t \in AbortTimes, force \in BOOLEAN, stage \in AbortStages,
       k \in 0..2 :
        MainAborted(doc, t, force, ApiNone, stage, k)

SpecAbort == Init /\ [][RunComplete \/ RunAborted]_vars

\* the step is a run of main() that aborted
AbortedRun == last'.n = last.n + 1 /\ last'.kind \in AbortKinds

\* C26: state.txt changes only in a run that reached its end, and then to the
\* hash of the document of that run: after save_flights, build_shift_report
\* and build_root_index have written every flight file, every meta.json entry
\* and both pages of this run, or after extract_flights returned no flight.
\* A run that aborts leaves state.txt as it was; so when the document of the
\* aborted run was a changed one (its hash is not the stored one), the next
\* run that downloads it again does not take the "no change" exit
C26_HashAfterCompletion ==
    [][/\ state_file' # state_file =>
              /\ last'.kind \in {"saved", "empty"}
              /\ state_file' = compute_sha256(html')
              /\ last'.kind = "empty" => Len(extract_flights(html')) = 0
              /\ last'.kind = "saved" =>
                     /\ last'.current # {}
                     /\ \A key \in last'.current :
                            /\ key \in DOMAIN files' /\ files'[key].saved_at = now'
                            /\ key \in DOMAIN meta' /\ meta'[key].updated_at = now'
                     /\ ShiftPage(run_folder(now')) \in DOMAIN reports'
                     /\ reports'[ShiftPage(run_folder(now'))] = now'
                     /\ IndexPage \in DOMAIN reports' /\ reports'[IndexPage] = now'
       /\ AbortedRun => state_file' = state_file
       /\ (/\ last.kind \in AbortKinds \ {"aborted_download"}
           /\ state_file # compute_sha256(html)
           /\ last'.n = last.n + 1 /\ last'.kind # "aborted_download"
           /\ html' = html)
              => last'.kind \in {"saved", "empty"} \cup AbortKinds]_vars

\* a run on a changed document that aborted after save_flights: its files and
\* entries are written and state.txt holds the hash of the document before
C26_Witness ==
    /\ last.kind = "aborted_report"
    /\ state_file # NoState /\ state_file # compute_sha256(html)
    /\ \E key \in DOMAIN files : files[key].saved_at = now /\ meta[key].updated_at = now

(***************************************************************************)
(* Specification of the manifest keys: save_flights on one manifest and an *)
(* empty store                                                             *)
(***************************************************************************)
\* the length of the long field texts
LongLen == 40

T_LONG == [i \in 1..LongLen |-> "A"]

\* the texts a field of the manifest is drawn from: empty, safe characters
\* only, a dot, a run of two spaces inside, a leading space, a dash and an
\* underscore, a slash, and a text that makes the key longer than max_length
FieldTexts ==
    {<<>>, T_WY223, T_18JUL, <<"A", " ", " ", "B">>, <<" ", "X">>, <<"-", "_">>,
     <<"W", "Y", "/", "2">>, T_LONG}

KeyManifests ==
    {[flight |-> f, date |-> d, std_etd |-> <<>>, destination |-> g,
      format |-> "A", items |-> <<>>] : f \in FieldTexts, d \in FieldTexts, g \in FieldTexts}

InitKeys ==
    /\ flights_out \in {<<m>> : m \in KeyManifests}
    /\ html = <<>>
    /\ phase = "input"
    /\ mins = 0 /\ shift_out = ""
    /\ IdleStore

SaveFlights ==
    /\ phase = "input"
    /\ \E store \in {save_flights(flights_out, file_names(flights_out), now, files, meta)} :
           files' = store.files /\ meta' = store.meta
    /\ phase' = "saved"
    /\ UNCHANGED <<mins, shift_out, html, flights_out, now, state_file, last, life, reports>>

SpecKeys == InitKeys /\ [][SaveFlights]_vars

\* the text the key of the manifest is derived from (lines 681-682)
KeyText ==
    flights_out[1].flight \o <<"_">> \o flights_out[1].date
        \o <<"_">> \o flights_out[1].destination

\* the key of a stored file: its name without ".json"
KeyOf(name) == SubSeq(name, 1, Len(name) - Len(W_JSON))

IsSafe(c) == IsAlnum(c) \/ c \in {"_", "-"}

Cut(s) == SubSeq(s, 1, IF Len(s) < SLUG_MAX THEN Len(s) ELSE SLUG_MAX)

\* every character outside [A-Za-z0-9_-] removed
StripUnsafe(s) == SelectSeq(s, IsSafe)

C24_AsStated ==
    (phase = "type_a" /\ table_rows \in EmptyFlightTables) =>
        \E k \in 1..Len(flights_out) :
            /\ flights_out[k].flight = <<>>
            /\ flights_out[k].destination = a_destination(table_rows[1])

(***************************************************************************)
(* Specification of _parse_type_b: the column-title row and the data rows  *)
(* below it                                                                *)
(***************************************************************************)
\* ITEM | DATE | FLIGHT | STD/ETD | DEST of one data row
RowColumnar(item, date, flt, dest) == <<item, date, flt, <<>>, dest>>

\* the data rows: two flights on two dates to two destinations, a row that
\* names no flight, and a row that continues the manifest above it (no flight,
\* no date, no destination)
ColumnarRows ==
    {RowColumnar(T_1, d, f, g) : d \in {T_18JUL, T_27FEB}, f \in {T_WY223, T_OV237},
                                 g \in {T_COK, T_MCT}}
        \cup {RowColumnar(T_1, T_18JUL, <<>>, T_COK), RowColumnar(T_2, <<>>, <<>>, <<>>)}

\* the most data rows of a columnar table
MaxDataRows == 3

InitColumnar ==
    /\ html \in {[blocks |-> <<TableBlock(<<ColumnTitles>> \o body)>>, pad |-> 0] :
                    body \in SeqsUpTo(ColumnarRows, MaxDataRows)}
    /\ flights_out = <<>>
    /\ phase = "input"
    /\ mins = 0 /\ shift_out = ""
    /\ IdleStore

ParseTypeB ==
    /\ phase = "input"
    /\ flights_out' = parse_type_b(table_rows)
    /\ phase' = "type_b"
    /\ UNCHANGED <<mins, shift_out, html, now, state_file, files, meta, last, life, reports>>

SpecColumnar == InitColumnar /\ [][ParseTypeB]_vars

\* the data rows that carry a flight or a date value (the title row is row 1)
KeyedRows == {k \in 2..Len(table_rows) : Truthy(table_rows[k][3]) \/ Truthy(table_rows[k][2])}

\* the keyed rows at which the flight value or the date value differs from
\* the keyed row before, and the first keyed row
StartsByFlightDate ==
    {k \in KeyedRows :
        \/ \A h \in KeyedRows : h >= k
        \/ LET prev == SetMax({h \in KeyedRows : h < k})
           IN  \/ table_rows[k][3] # table_rows[prev][3]
               \/ table_rows[k][2] # table_rows[prev][2]}

\* C21 as stated: a manifest begins exactly at the first row that carries a
\* flight or date value and at every row whose flight or date value differs
\* from the manifest being accumulated, so there are as many manifests as such
\* rows, and two neighbouring rows of one flight on two dates are two manifests
C21_AsStated ==
    phase = "type_b" => Len(flights_out) = Cardinality(StartsByFlightDate)

(***************************************************************************)
(* Specification of _parse_type_c on the lines of a text                   *)
(***************************************************************************)
\* OFFLOADED CARGO ON WY223/18JUL
T_TITLE2 == <<"O", "F", "F", "L", "O", "A", "D", "E", "D", " ", "C", "A", "R", "G", "O", " ", "O", "N", " ", "W", "Y", "2", "2", "3", "/", "1", "8", "J", "U", "L">>

\* 176 55501234   2   MAIL   C   12.5   MCTDXB
T_DATA2 == <<"1", "7", "6", " ", "5", "5", "5", "0", "1", "2", "3", "4", " ", " ", " ", "2", " ", " ", " ", "M", "A", "I", "L", " ", " ", " ", "C", " ", " ", " ", "1", "2", ".", "5", " ", " ", " ", "M", "C", "T", "D", "X", "B">>

\* CGO OFFLOADED DUE WEATHER
T_RSN2 == <<"C", "G", "O", " ", "O", "F", "F", "L", "O", "A", "D", "E", "D", " ", "D", "U", "E", " ", "W", "E", "A", "T", "H", "E", "R">>

T_WEATHER == <<"W", "E", "A", "T", "H", "E", "R">>

\* the lines of a text: two title lines, two shipment lines, two reason lines
LinePool == {T_TITLE, T_TITLE2, T_DATA, T_DATA2, T_RSN, T_RSN2}

\* the most lines of a text drawn from LinePool
MaxLines == 3

\* a title line and a shipment line, `gap` lines of no meaning, a reason line:
\* the reason line is inside the lookahead window of the title or beyond it
WindowText(gap) == <<T_TITLE, T_DATA>> \o [k \in 1..gap |-> T_NOTE] \o <<T_RSN>>

\* a title line, `gap` lines of no meaning, a second title line and its
\* shipment line: the second title is inside the window of the first or beyond
TwoTitleText(gap) == <<T_TITLE>> \o [k \in 1..gap |-> T_NOTE] \o <<T_TITLE2, T_DATA2>>

\* longer blocks: a shipment with two reason lines, shipments before and after
\* a reason line, and two flights with their shipments
BlockTexts ==
    {<<T_TITLE, T_DATA, T_RSN, T_RSN2>>,
     <<T_TITLE, T_DATA, T_RSN, T_DATA2, T_RSN2>>,
     <<T_TITLE, T_DATA, T_DATA2, T_RSN, T_RSN2>>,
     <<T_TITLE, T_DATA, T_TITLE2, T_DATA2>>,
     <<T_TITLE, T_DATA, T_RSN, T_TITLE2, T_DATA2, T_RSN2>>}

TextLines ==
    SeqsUpTo(LinePool, MaxLines) \cup BlockTexts
        \cup {WindowText(gap) : gap \in 11..14} \cup {TwoTitleText(gap) : gap \in 12..15}

InitText ==
    /\ html \in {[blocks |-> [k \in 1..Len(ls) |-> TextBlock(ls[k])], pad |-> 0] :
                    ls \in TextLines}
    /\ flights_out = <<>>
    /\ phase = "input"
    /\ mins = 0 /\ shift_out = ""
    /\ IdleStore

\* the lines of the text of the document
text_lines == [k \in 1..Len(html.blocks) |-> html.blocks[k].line]

ParseTypeC ==
    /\ phase = "input"
    /\ flights_out' = parse_type_c(doc_lines(html))
    /\ phase' = "type_c"
    /\ UNCHANGED <<mins, shift_out, html, now, state_file, files, meta, last, life, reports>>

SpecText == InitText /\ [][ParseTypeC]_vars

\* the title lines of the text
TitleLines == {i \in 1..Len(text_lines) : title_match(text_lines[i]).ok}

\* the shipment lines of the text
DataLines == {j \in 1..Len(text_lines) : data_match(text_lines[j]).ok}

\* the k-th smallest member of a set of numbers
Nth(S, k) == CHOOSE x \in S : Cardinality({y \in S : y < x}) = k - 1

\* the shipment lines after the title at line i, before the next title line and
\* inside the lookahead window
OwnDataLines(i) ==
    {j \in DataLines : /\ j > i /\ j < i + C_WINDOW
                       /\ \A t \in TitleLines : ~(i < t /\ t < j)}

\* C22 as stated: every title line has a manifest of its own, and the
\* shipments of a manifest are the shipment lines between its title and the
\* next title
C22_AsStated ==
    phase = "type_c" =>
        /\ Len(flights_out) = Cardinality(TitleLines)
        /\ \A k \in 1..Len(flights_out) :
               k <= Cardinality(TitleLines) =>
                   /\ flights_out[k].flight = title_match(text_lines[Nth(TitleLines, k)]).flight
                   /\ Len(flights_out[k].items)
                          = Cardinality(OwnDataLines(Nth(TitleLines, k)))

\* the reason lines of the text
ReasonLines == {j \in 1..Len(text_lines) : reason_match(text_lines[j]).ok}

\* the line after the block of the title at line i: the end of the text or of
\* the lookahead window
BlockEndC(i) == IF Len(text_lines) + 1 < i + C_WINDOW THEN Len(text_lines) + 1 ELSE i + C_WINDOW

RECURSIVE BlockTitles(_)
\* the title lines that open a block, from line i on: a block is searched for
\* its title behind the block before
BlockTitles(i) ==
    IF i > Len(text_lines) THEN <<>>
    ELSE IF i \in TitleLines THEN <<i>> \o BlockTitles(BlockEndC(i))
    ELSE BlockTitles(i + 1)

\* C23: in the block of a title, every shipment has the reason of the first
\* reason line at or below its own line, and no reason when there is none; so
\* a reason line reaches every shipment collected so far that has none, and a
\* reason once set is kept when a later reason line of the block comes
C23_FirstReasonWins ==
    phase = "type_c" =>
        /\ Len(flights_out) = Len(BlockTitles(1))
        /\ \A k \in 1..Len(flights_out) :
               LET i   == BlockTitles(1)[k]
                   blk == (i + 1)..(BlockEndC(i) - 1)
                   ds  == DataLines \cap blk
                   its == flights_out[k].items
               IN  /\ Len(its) = Cardinality(ds)
                   /\ \A n \in 1..Len(its) :
                          LET later == {r \in ReasonLines \cap blk : r >= Nth(ds, n)}
                          IN  its[n].reason =
                                  IF later = {} THEN <<>>
                                  ELSE reason_match(text_lines[SetMin(later)]).reason

\* a shipment, then two reason lines: the shipment has the first reason
C23_Witness ==
    /\ phase = "type_c"
    /\ text_lines = <<T_TITLE, T_DATA, T_RSN, T_RSN2>>
    /\ Len(flights_out) = 1
    /\ flights_out[1].items[1].reason = T_SPACE
    /\ flights_out[1].reason = T_WEATHER

(***************************************************************************)
(* Specification of save_flights on two manifests and an empty store       *)
(***************************************************************************)
T_WY_2 == <<"W", "Y", "/", "2">>

T_WY2 == <<"W", "Y", ".", "2">>

T_18_JUL == <<"1", "8", " ", "J", "U", "L">>

\* the manifests of a pair: flight numbers and dates that differ in a
\* character outside [A-Za-z0-9_-] only, and such that differ elsewhere
PairManifests ==
    {[flight |-> f, date |-> d, std_etd |-> <<>>, destination |-> T_COK,
      format |-> "A", items |-> <<>>] :
        f \in {T_WY223, T_OV237, T_WY_2, T_WY2}, d \in {T_18JUL, T_18_JUL, T_27FEB}}

InitPairs ==
    /\ flights_out \in {<<m1, m2>> : m1 \in PairManifests, m2 \in PairManifests}
    /\ html = <<>>
    /\ phase = "input"
    /\ mins = 0 /\ shift_out = ""
    /\ IdleStore

SpecPairs == InitPairs /\ [][SaveFlights]_vars

\* the (flight, date, destination) triple of a manifest
Triple(f) == <<f.flight, f.date, f.destination>>

\* C27 as stated: two flights of one save with different triples are stored
\* in two files with two meta entries, each file holds its own flight, and
\* neither is counted as an update
C27_AsStated ==
    (phase = "saved" /\ Triple(flights_out[1]) # Triple(flights_out[2])) =>
        /\ Cardinality(DOMAIN files) = 2
        /\ Cardinality(DOMAIN meta) = 2
        /\ \A k \in 1..2 : \E key \in DOMAIN files : files[key].flight = flights_out[k]
        /\ \A key \in DOMAIN meta : meta[key].updates = 0

(***************************************************************************)
(* The loops of _parse_type_a and _parse_type_c, one iteration a step.     *)
(* `last` holds the locals of the function, `phase` the loop it is in,     *)
(* `flights_out` the list `flights`.  Indices are 1-based: the code's      *)
(* `i < len(all_rows)` is `i <= Len(all_rows)` here.                       *)
(***************************************************************************)
\* the most runs of rows in the body of a table whose loops are stepped
MaxLoopUnits == 2

LoopTables ==
    {<<RowFlight(T_WY223, T_18JUL, T_COK), second>> \o Flatten(body) :
        second \in {RowSubHeader, RowCargo(T_AWB1, T_35, T_781)},
        body \in SeqsUpTo(RowUnits, MaxLoopUnits)}
        \cup {<<RowFlight(T_WY223, T_18JUL, T_COK)>>, <<RowSubHeader>>, <<>>}

\* the tests of _parse_type_a on a row (lines 400-403, 405-414, 428-432),
\* tabulated over the rows of the tables
RowTests ==
    [row \in {RowFlight(T_WY223, T_18JUL, T_COK), RowSubHeader, RowCargo(T_AWB1, T_35, T_781)}
              \cup UNION {{unit[k] : k \in 1..Len(unit)} : unit \in RowUnits} |->
        [header    |-> a_header_candidate(row) /\ ~a_header_rejected(row),
         total     |-> Contains(W_TOTAL, Upper(Join(row))),
         next_head |-> Contains(W_FLIGHT, Upper(Join(row))) /\ Contains(W_DATE, Upper(Join(row))),
         columns   |-> a_columns(row)]]

\* the three patterns of _parse_type_c on a line (lines 594-603), tabulated
\* over the lines of the texts
LineTests ==
    [line \in LinePool \cup {T_NOTE} |->
        [title |-> title_match(line), data |-> data_match(line),
         rsn   |-> reason_match(line)]]

\* the locals before the first iteration (lines 396-397 and 604-605)
Locals(i) ==
    [i |-> i, j |-> 0, c |-> <<>>, items |-> <<>>, pending_trolley |-> <<>>,
     reason |-> <<>>, reads |-> {}]

InitLoops ==
    /\ \/ /\ html \in {[blocks |-> <<TableBlock(rows)>>, pad |-> 0] : rows \in LoopTables}
          /\ phase = "a_outer"
       \/ /\ html \in {[blocks |-> [k \in 1..Len(ls) |-> TextBlock(ls[k])], pad |-> 0] :
                          ls \in TextLines}
          /\ phase = "c_outer"
    /\ flights_out = <<>>
    /\ last = Locals(1)
    /\ mins = 0 /\ shift_out = ""
    /\ now = [day |-> 0, mins |-> 0] /\ state_file = <<>> /\ files = <<>>
    /\ meta = <<>> /\ life = <<>> /\ reports = <<>>

\* the first row of the inner loop that starts at the header row i
a_first_body_row_header(i) == i

\* line 424: j = i + 2
a_first_body_row(i) == i + 2

\* one iteration of the inner loop of _parse_type_a at row j (lines 427-470):
\* the locals after it, and whether it left the loop by break
a_row_step(all_rows, j, c, items, pending_trolley) ==
    LET dr     == all_rows[j]
        awb    == Get(dr, c.awb)
        pcs    == Get(dr, c.pcs)
        kgs    == Get(dr, c.kgs)
        desc   == Get(dr, c.desc)
        rsn    == Get(dr, c.rsn)
        awb_clean == Upper(Strip(awb))
        others == Truthy(pcs) \/ Truthy(kgs) \/ Truthy(desc) \/ Truthy(rsn)
        same   == [j |-> j + 1, items |-> items, pending_trolley |-> pending_trolley,
                   brk |-> FALSE]
    IN  IF RowTests[dr].total THEN [same EXCEPT !.brk = TRUE]
        ELSE IF RowTests[dr].next_head
        THEN [same EXCEPT !.j = j, !.brk = TRUE]
        ELSE IF a_trolley_token(awb_clean) /\ ~others
        THEN IF Len(items) > 0
             THEN [same EXCEPT !.items = [items EXCEPT ![Len(items)].trolley = awb]]
             ELSE [same EXCEPT !.pending_trolley = awb]
        ELSE IF ~(Truthy(awb) \/ others) THEN same
        ELSE [same EXCEPT
                 !.items = Append(items, a_item(awb, pcs, kgs, desc, rsn, pending_trolley)),
                 !.pending_trolley = <<>>]

\* lines 472-480: the flight of the header row i is appended with its items
a_flight(all_rows, i, items) ==
    [flight      |-> a_flight_num(all_rows[i]),
     date        |-> a_date(all_rows[i]),
     std_etd     |-> <<>>,
     destination |-> a_destination(all_rows[i]),
     format      |-> "A",
     items       |-> items]

LoopFrame == UNCHANGED <<mins, shift_out, html, now, state_file, files, meta, life, reports>>

\* line 398: the loop condition fails, and line 484
AReturn ==
    /\ phase = "a_outer" /\ last.i > Len(table_rows)
    /\ phase' = "a_done"
    /\ last' = [last EXCEPT !.reads = {}]
    /\ UNCHANGED flights_out /\ LoopFrame

\* lines 399-414 and 481-482: the row is no header, or a rejected one
AOuterSkip ==
    /\ phase = "a_outer" /\ last.i <= Len(table_rows)
    /\ ~RowTests[table_rows[last.i]].header
    /\ last' = [last EXCEPT !.i = @ + 1, !.reads = {last.i}]
    /\ UNCHANGED <<phase, flights_out>> /\ LoopFrame

\* lines 399-424: the row is a header; the sub-header row is read when there
\* is one
AOuterEnter ==
    /\ phase = "a_outer" /\ last.i <= Len(table_rows)
    /\ RowTests[table_rows[last.i]].header
    /\ last' = [last EXCEPT
                   !.c = IF last.i + 1 <= Len(table_rows)
                         THEN RowTests[table_rows[last.i + 1]].columns ELSE a_columns(<<>>),
                   !.items = <<>>, !.pending_trolley = <<>>,
                   !.j = a_first_body_row(last.i),
                   !.reads = {last.i} \cup (IF last.i + 1 <= Len(table_rows)
                                            THEN {last.i + 1} ELSE {})]
    /\ phase' = "a_inner"
    /\ UNCHANGED flights_out /\ LoopFrame

\* an iteration of the inner loop that goes back to the loop condition
AInnerNext ==
    /\ phase = "a_inner" /\ last.j <= Len(table_rows)
    /\ \E st \in {a_row_step(table_rows, last.j, last.c, last.items, last.pending_trolley)} :
           /\ ~st.brk
           /\ last' = [last EXCEPT !.j = st.j, !.items = st.items,
                                   !.pending_trolley = st.pending_trolley,
                                   !.reads = {last.j}]
    /\ UNCHANGED <<phase, flights_out>> /\ LoopFrame

\* an iteration of the inner loop that leaves it by break (a TOTAL row, or
\* the next header row), then lines 472-480
AInnerBreak ==
    /\ phase = "a_inner" /\ last.j <= Len(table_rows)
    /\ \E st \in {a_row_step(table_rows, last.j, last.c, last.items, last.pending_trolley)} :
           /\ st.brk
           /\ flights_out' = Append(flights_out, a_flight(table_rows, last.i, st.items))
           /\ last' = [last EXCEPT !.i = st.j, !.j = st.j, !.items = st.items,
                                   !.reads = {last.j}]
    /\ phase' = "a_outer"
    /\ LoopFrame

\* line 426: the condition of the inner loop fails, then lines 472-480
AInnerEnd ==
    /\ phase = "a_inner" /\ last.j > Len(table_rows)
    /\ flights_out' = Append(flights_out, a_flight(table_rows, last.i, last.items))
    /\ last' = [last EXCEPT !.i = last.j, !.reads = {}]
    /\ phase' = "a_outer"
    /\ LoopFrame

\* one iteration of the inner loop of _parse_type_c at line j (lines 617-648)
c_line_step(lines, j, items, reason) ==
    LET m_data == LineTests[lines[j]].data
        m_rsn  == LineTests[lines[j]].rsn
        items1 == IF m_data.ok THEN Append(items, c_item(m_data)) ELSE items
    IN  IF m_rsn.ok
        THEN [j |-> j + 1, items |-> c_backfill(items1, m_rsn.reason), reason |-> m_rsn.reason]
        ELSE [j |-> j + 1, items |-> items1, reason |-> reason]

\* line 606: the loop condition fails, and line 664
CReturn ==
    /\ phase = "c_outer" /\ last.i > Len(text_lines)
    /\ phase' = "c_done"
    /\ last' = [last EXCEPT !.reads = {}]
    /\ UNCHANGED flights_out /\ LoopFrame

\* lines 607-609 and 661-662: the line is no title
COuterSkip ==
    /\ phase = "c_outer" /\ last.i <= Len(text_lines)
    /\ ~LineTests[text_lines[last.i]].title.ok
    /\ last' = [last EXCEPT !.i = @ + 1, !.reads = {last.i}]
    /\ UNCHANGED <<phase, flights_out>> /\ LoopFrame

\* lines 607-615: the line is a title; j = i + 1
COuterEnter ==
    /\ phase = "c_outer" /\ last.i <= Len(text_lines)
    /\ LineTests[text_lines[last.i]].title.ok
    /\ last' = [last EXCEPT !.items = <<>>, !.reason = <<>>, !.j = last.i + 1,
                            !.reads = {last.i}]
    /\ phase' = "c_inner"
    /\ UNCHANGED flights_out /\ LoopFrame

\* lines 616-648: an iteration of the inner loop
CInnerNext ==
    /\ phase = "c_inner"
    /\ last.j <= Len(text_lines) /\ last.j < last.i + C_WINDOW
    /\ \E st \in {c_line_step(text_lines, last.j, last.items, last.reason)} :
           last' = [last EXCEPT !.j = st.j, !.items = st.items, !.reason = st.reason,
                                !.reads = {last.j}]
    /\ UNCHANGED <<phase, flights_out>> /\ LoopFrame

\* line 616: the condition of the inner loop fails, then lines 650-660
CInnerEnd ==
    /\ phase = "c_inner"
    /\ ~(last.j <= Len(text_lines) /\ last.j < last.i + C_WINDOW)
    /\ \E m_title \in {LineTests[text_lines[last.i]].title} :
           flights_out' =
               IF Len(last.items) > 0 \/ Truthy(m_title.flight)
               THEN Append(flights_out,
                        [flight      |-> m_title.flight,
                         date        |-> m_title.date,
                         std_etd     |-> <<>>,
                         destination |-> c_destination(last.items),
                         format      |-> "C",
                         reason      |-> last.reason,
                         items       |-> last.items])
               ELSE flights_out
    /\ last' = [last EXCEPT !.i = last.j, !.reads = {}]
    /\ phase' = "c_outer"
    /\ LoopFrame

NextLoops ==
    \/ AReturn \/ AOuterSkip \/ AOuterEnter \/ AInnerNext \/ AInnerBreak \/ AInnerEnd
    \/ CReturn \/ COuterSkip \/ COuterEnter \/ CInnerNext \/ CInnerEnd

\* a function that is called runs on: its next iteration is taken
SpecLoops == InitLoops /\ [][NextLoops]_vars /\ WF_vars(NextLoops)

\* the rows or lines the function is given
LoopInput == IF phase \in {"a_outer", "a_inner", "a_done"} THEN table_rows ELSE text_lines

\* the stepped loops return what parse_type_a and parse_type_c return
LoopsAgree ==
    /\ phase = "a_done" => flights_out = parse_type_a(table_rows)
    /\ phase = "c_done" => flights_out = parse_type_c(text_lines)

OuterPhases == {"a_outer", "c_outer"}

InnerPhases == {"a_inner", "c_inner"}

====
